---- MODULE Spec2Model ----
(***************************************************************************)
(* A model of rusty-roguelike (src/src/main.rs, src/src/components.rs):    *)
(* level generation, the entity model, collision and movement, combat,     *)
(* items and the main loop.                                                *)
(*                                                                         *)
(* Encodings.                                                              *)
(*  - Option<T> is a sequence: None is <<>>, Some(v) is <<v>>.             *)
(*  - Map (Vec<Tile>) is kept field by field as sets of tile indices:      *)
(*    i \in map.passable <=> map[i].passable, i \in map.explored <=>       *)
(*    map[i].explored, i \in map.visible <=> map[i].visible, and           *)
(*    i \in map.see_through <=> ~map[i].blocks_sight.                      *)
(*  - Object keeps the fields the simulation reads; char, death_char,      *)
(*    color and show_when_dead are read by the renderer only.              *)
(*  - Colors of messages are dropped; a message is its text.               *)
(*  - The random stream and the field-of-view oracle are collaborators     *)
(*    outside the repository: every draw is a nondeterministic choice in   *)
(*    the range the call asks for, cut down to the windows named below.    *)
(*    Only the seed-level specification follows the stream itself, as a    *)
(*    function of the seed it is built from.                               *)
(***************************************************************************)
EXTENDS Integers, Sequences, FiniteSets, TLC

VARIABLES
  pc,                  \* position of main: "make_map", "loop_top", "event", "npc", "update", "done", "calls"
  objects,             \* Vec<Object>
  map,                 \* Map
  rooms,               \* make_map's local rooms
  room_i,              \* make_map's loop counter i
  messages,            \* game_state.messages
  game_running,        \* game_state.game_running
  inventory,           \* game_state.inventory
  fov,                 \* engine.fov: the tiles the oracle reports in view
  keypress,            \* main's local keypress
  previous_player_pos, \* main's local previous_player_pos
  recompute_fov,       \* main's local recompute_fov of the running iteration
  player_action,       \* main's local player_action of the running iteration
  npc_id,              \* the id of main's monster loop
  npc_len,             \* objects.len() as evaluated once by `0..objects.len()`
  ticks,               \* loop iterations completed
  calls,               \* function calls made (call-level specification only)
  thread_ctx           \* main's thread_ctx, an Option: None where the stream is not followed

vars == <<pc, objects, map, rooms, room_i, messages, game_running, inventory, fov,
          keypress, previous_player_pos, recompute_fov, player_action, npc_id,
          npc_len, ticks, calls, thread_ctx>>

---------------------------------------------------------------------------
(* Program constants *)

SCREEN_WIDTH == 80
SCREEN_HEIGHT == 43
MAP_WIDTH == SCREEN_WIDTH
MAP_HEIGHT == SCREEN_HEIGHT - 5
PANEL_HEIGHT == 7
MSG_HEIGHT == PANEL_HEIGHT - 1
ROOM_MAX_SIZE == 12
ROOM_MIN_SIZE == 5
MAX_ROOMS == 10
MAX_ROOM_MONSTERS == 4
MAX_ROOM_ITEMS == 2
PLAYER_IDX == 0
TORCH_RADIUS == 10
HEAL_AMOUNT == 8
INVENTORY_CAPACITY == 26

---------------------------------------------------------------------------
(* Bounds of the model *)

\* rooms are drawn with w, h <= ROOM_MIN_SIZE + MaxSizeDraw
MaxSizeDraw == 0
\* room origins are drawn on a grid of step ROOM_MIN_SIZE + 1, columns 0..MaxOriginCol
MaxOriginCol == 1
\* ... and rows 0..MaxOriginRow
MaxOriginRow == 0
\* at most this many monsters are drawn for a room
MaxMonsterDraw == 2
\* at most this many items are drawn for a room
MaxItemDraw == 1
\* objects are drawn at most this far from the room's first interior cell, per axis
MaxPosDraw == 0
\* loop iterations explored
MaxTicks == 3
\* function calls explored by the call-level specification
MaxCalls == 3
\* the generation-level specification draws rooms with w, h <= ROOM_MIN_SIZE + MaxGenSize
MaxGenSize == 0
\* ... at the origin columns 0, w, w + 1, MAP_WIDTH - w - 1, the first 1 + MaxGenCol of them
MaxGenCol == 2
\* ... and at the origin rows 0, MAP_HEIGHT - h - 1, h, h + 1, the first 1 + MaxGenRow of them
MaxGenRow == 1
\* ... with at most this many monsters and this many items drawn for a room
MaxGenObjectDraw == 0

---------------------------------------------------------------------------
(* Small helpers *)

None == <<>>
Some(v) == <<v>>
IsSome(o) == o # <<>>
Unwrap(o) == o[1]

Min(a, b) == IF a < b THEN a ELSE b
Max(a, b) == IF a > b THEN a ELSE b

\* (y * MAP_WIDTH + x) as usize
TileIndex(x, y) == y * MAP_WIDTH + x

NumTiles == MAP_WIDTH * MAP_HEIGHT

\* rand::Rng::gen_range(low, high): a value in low..high-1
gen_range(low, high) == low .. (high - 1)

---------------------------------------------------------------------------
(* components.rs, Object *)

CharacterAttributes(max_hp, hp, defense, power) ==
  [max_hp |-> max_hp, hp |-> hp, defense |-> defense, power |-> power]

\* Object::new
ObjectNew(x, y, name, blocks) ==
  [x |-> x, y |-> y, name |-> name, blocks |-> blocks, alive |-> FALSE,
   char_attributes |-> None, brain |-> None, item |-> None]

\* Object::pos
Pos(o) == <<o.x, o.y>>

\* Object::set_pos
set_pos(o, x, y) == [o EXCEPT !.x = x, !.y = y]

\* the player object with a brain, as the monsters have
PlayerNew_with_brain ==
  [ObjectNew(0, 0, "Player Bob", TRUE) EXCEPT
     !.alive = TRUE,
     !.char_attributes = Some(CharacterAttributes(30, 30, 3, 7)),
     !.brain = Some("Ai")]

\* main: the player object
PlayerNew ==
  [ObjectNew(0, 0, "Player Bob", TRUE) EXCEPT
     !.alive = TRUE,
     !.char_attributes = Some(CharacterAttributes(30, 30, 3, 7))]

---------------------------------------------------------------------------
(* Rect *)

RectNew(x, y, w, h) == [x1 |-> x, y1 |-> y, x2 |-> x + w, y2 |-> y + h]

\* Rect::center (operands are never negative, so / is \div)
center(r) == <<(r.x1 + r.x2) \div 2, (r.y1 + r.y2) \div 2>>

\* intersects_with on exclusive bounds: rooms that merely touch do not intersect
intersects_with_exclusive(r, other) ==
  /\ r.x1 < other.x2
  /\ r.x2 > other.x1
  /\ r.y1 < other.y2
  /\ r.y2 > other.y1

intersects_with(r, other) ==
  /\ r.x1 <= other.x2
  /\ r.x2 >= other.x1
  /\ r.y1 <= other.y2
  /\ r.y2 >= other.y1

---------------------------------------------------------------------------
(* Tile, Map *)

\* vec![Tile::wall(); MAP_WIDTH * MAP_HEIGHT]
AllWalls == [passable |-> {}, see_through |-> {}, explored |-> {}, visible |-> {}]

\* Tile::empty / Tile::make_empty written to every index of idxs
MakeEmpty(m, idxs) ==
  [passable |-> m.passable \cup idxs,
   see_through |-> m.see_through \cup idxs,
   explored |-> m.explored \ idxs,
   visible |-> m.visible \ idxs]

\* create_room carving the border of the room with its inside
create_room_with_border(room, m) ==
  MakeEmpty(m, {TileIndex(x, y) : x \in room.x1..room.x2,
                                  y \in room.y1..room.y2})

create_room(room, m) ==
  MakeEmpty(m, {TileIndex(x, y) : x \in (room.x1 + 1)..(room.x2 - 1),
                                  y \in (room.y1 + 1)..(room.y2 - 1)})

create_h_tunnel(x1, x2, y, m) ==
  MakeEmpty(m, {TileIndex(x, y) : x \in Min(x1, x2)..Max(x1, x2)})

\* create_v_tunnel carving the column next to x
create_v_tunnel_next_column(y1, y2, x, m) ==
  MakeEmpty(m, {TileIndex(x + 1, y) : y \in Min(y1, y2)..Max(y1, y2)})

create_v_tunnel(y1, y2, x, m) ==
  MakeEmpty(m, {TileIndex(x, y) : y \in Min(y1, y2)..Max(y1, y2)})

---------------------------------------------------------------------------
(* The message log *)

\* message(game_state, text, color)
message(msgs, text) ==
  Append(IF Len(msgs) = MSG_HEIGHT THEN Tail(msgs) ELSE msgs, text)

---------------------------------------------------------------------------
(* Combat: results are records of the values the call leaves behind *)

\* on_object_death without the match on brain: every death leaves a corpse
on_object_death_always_corpse(obj, msgs) ==
  [obj |-> [obj EXCEPT !.name = obj.name \o " [corpse]",
                       !.blocks = FALSE,
                       !.brain = None],
   messages |-> message(msgs, obj.name \o " died!")]

\* on_object_death that leaves the dead entity blocking its tile
on_object_death_keeps_blocking(obj, msgs) ==
  IF IsSome(obj.brain)
  THEN [obj |-> [obj EXCEPT !.name = obj.name \o " [corpse]",
                            !.brain = None],
        messages |-> message(msgs, obj.name \o " died!")]
  ELSE [obj |-> obj,
        messages |-> message(msgs, obj.name \o " died!")]

on_object_death(obj, msgs) ==
  IF IsSome(obj.brain)
  THEN [obj |-> [obj EXCEPT !.name = obj.name \o " [corpse]",
                            !.blocks = FALSE,
                            !.brain = None],
        messages |-> message(msgs, obj.name \o " died!")]
  ELSE [obj |-> [obj EXCEPT !.blocks = FALSE],
        messages |-> message(msgs, obj.name \o " died!")]

\* take_damage with `hp < 0` for `hp <= 0`
take_damage_strict_zero(self, damage, msgs) ==
  IF self.alive /\ damage > 0
  THEN LET hit ==
             IF IsSome(self.char_attributes)
             THEN LET ca == Unwrap(self.char_attributes)
                      hp == ca.hp - Min(damage, ca.hp)
                  IN [self EXCEPT !.char_attributes = Some([ca EXCEPT !.hp = hp]),
                                  !.alive = IF hp < 0 THEN FALSE ELSE self.alive]
             ELSE self
       IN IF IsSome(hit.char_attributes) /\ ~hit.alive
          THEN on_object_death(hit, msgs)
          ELSE [obj |-> hit, messages |-> msgs]
  ELSE [obj |-> self, messages |-> msgs]

\* take_damage without the test of self.alive
take_damage_on_dead(self, damage, msgs) ==
  IF damage > 0
  THEN LET hit ==
             IF IsSome(self.char_attributes)
             THEN LET ca == Unwrap(self.char_attributes)
                      hp == ca.hp - Min(damage, ca.hp)
                  IN [self EXCEPT !.char_attributes = Some([ca EXCEPT !.hp = hp]),
                                  !.alive = IF hp <= 0 THEN FALSE ELSE self.alive]
             ELSE self
       IN IF IsSome(hit.char_attributes) /\ ~hit.alive
          THEN on_object_death(hit, msgs)
          ELSE [obj |-> hit, messages |-> msgs]
  ELSE [obj |-> self, messages |-> msgs]

\* Object::take_damage
take_damage(self, damage, msgs) ==
  IF self.alive /\ damage > 0
  THEN LET hit ==
             IF IsSome(self.char_attributes)
             THEN LET ca == Unwrap(self.char_attributes)
                      hp == ca.hp - Min(damage, ca.hp)
                  IN [self EXCEPT !.char_attributes = Some([ca EXCEPT !.hp = hp]),
                                  !.alive = IF hp <= 0 THEN FALSE ELSE self.alive]
             ELSE self
       IN IF IsSome(hit.char_attributes) /\ ~hit.alive
          THEN on_object_death(hit, msgs)
          ELSE [obj |-> hit, messages |-> msgs]
  ELSE [obj |-> self, messages |-> msgs]

\* heal without the cap at max_hp
heal_uncapped(self, amount) ==
  IF self.alive /\ amount > 0 /\ IsSome(self.char_attributes)
  THEN LET ca == Unwrap(self.char_attributes)
       IN [self EXCEPT !.char_attributes = Some([ca EXCEPT !.hp = ca.hp + amount])]
  ELSE self

\* heal without the test of self.alive
heal_dead(self, amount) ==
  IF amount > 0 /\ IsSome(self.char_attributes)
  THEN LET ca == Unwrap(self.char_attributes)
       IN [self EXCEPT !.char_attributes =
                         Some([ca EXCEPT !.hp = Min(ca.max_hp, ca.hp + amount)])]
  ELSE self

\* Object::heal
heal(self, amount) ==
  IF self.alive /\ amount > 0 /\ IsSome(self.char_attributes)
  THEN LET ca == Unwrap(self.char_attributes)
       IN [self EXCEPT !.char_attributes =
                         Some([ca EXCEPT !.hp = Min(ca.max_hp, ca.hp + amount)])]
  ELSE self

\* char_attributes.map_or(0, |x| x.power) and the same for defense
PowerOf(o) == IF IsSome(o.char_attributes) THEN Unwrap(o.char_attributes).power ELSE 0
DefenseOf(o) == IF IsSome(o.char_attributes) THEN Unwrap(o.char_attributes).defense ELSE 0

\* attack with the defender's defense left out of the damage
attack_ignores_defense(self, target, msgs) ==
  LET damage == PowerOf(self)
  IN IF damage > 0
     THEN LET r == take_damage(target, damage,
                     message(msgs, self.name \o " attacks " \o target.name \o
                                   " and deals " \o ToString(damage) \o " damage!"))
          IN [self |-> self, target |-> r.obj, messages |-> r.messages]
     ELSE [self |-> self, target |-> target,
           messages |-> message(msgs, self.name \o " attacks " \o target.name \o
                                      ", but it has no effect!")]

\* Object::attack
attack(self, target, msgs) ==
  LET damage == PowerOf(self) - DefenseOf(target)
  IN IF damage > 0
     THEN LET r == take_damage(target, damage,
                     message(msgs, self.name \o " attacks " \o target.name \o
                                   " and deals " \o ToString(damage) \o " damage!"))
          IN [self |-> self, target |-> r.obj, messages |-> r.messages]
     ELSE [self |-> self, target |-> target,
           messages |-> message(msgs, self.name \o " attacks " \o target.name \o
                                      ", but it has no effect!")]

---------------------------------------------------------------------------
(* Collision and movement *)

\* position that returns the last index among hits
position_last(hits) ==
  IF hits = {} THEN None
  ELSE Some((CHOOSE i \in hits : \A j \in hits : i >= j) - 1)

\* objects.iter().position(pred): the first index (0-based) among hits, the places
\* (1-based) of the entries satisfying pred, as an Option
position(hits) ==
  IF hits = {} THEN None
  ELSE Some((CHOOSE i \in hits : \A j \in hits : i <= j) - 1)

\* the index check of map[..]: outside 0..len-1 the access panics
InMap(idx) == idx \in 0..(NumTiles - 1)

check_tile_for_collision(x, y, m, objs) ==
  IF TileIndex(x, y) \in m.passable
  THEN LET id == position({i \in 1..Len(objs) : objs[i].blocks /\ Pos(objs[i]) = <<x, y>>})
       IN [collision |-> IsSome(id), obj_collision |-> IsSome(id),
           tile_collision |-> FALSE, collision_id |-> id]
  ELSE [collision |-> TRUE, obj_collision |-> FALSE,
        tile_collision |-> TRUE, collision_id |-> None]

\* attempt_move that tests the tile only, not the objects on it
attempt_move_tile_only(id, dx, dy, m, objs) ==
  LET new_x == objs[id + 1].x + dx
      new_y == objs[id + 1].y + dy
      coll_info == check_tile_for_collision(new_x, new_y, m, objs)
  IN [coll_info |-> coll_info,
      objects |-> IF ~coll_info.tile_collision
                  THEN [objs EXCEPT ![id + 1] = set_pos(objs[id + 1], new_x, new_y)]
                  ELSE objs]

\* attempt_move; id is 0-based as in the source, objs is indexed from 1
attempt_move(id, dx, dy, m, objs) ==
  LET new_x == objs[id + 1].x + dx
      new_y == objs[id + 1].y + dy
      coll_info == check_tile_for_collision(new_x, new_y, m, objs)
  IN [coll_info |-> coll_info,
      objects |-> IF ~coll_info.collision
                  THEN [objs EXCEPT ![id + 1] = set_pos(objs[id + 1], new_x, new_y)]
                  ELSE objs]

---------------------------------------------------------------------------
(* Items and the inventory *)

\* Vec::swap_remove(id): the last element takes the place of the removed one
swap_remove(v, id) ==
  IF id + 1 = Len(v)
  THEN SubSeq(v, 1, Len(v) - 1)
  ELSE [i \in 1..(Len(v) - 1) |-> IF i = id + 1 THEN v[Len(v)] ELSE v[i]]

\* Vec::remove(id): the later elements shift down
remove(v, id) == SubSeq(v, 1, id) \o SubSeq(v, id + 2, Len(v))

\* pick_up_item with `> 26` for `>= 26`
pick_up_item_off_by_one(inv, msgs, object_id, objs) ==
  IF Len(inv) > INVENTORY_CAPACITY
  THEN [inventory |-> inv,
        messages |-> message(msgs, "You can't pick up the " \o objs[object_id + 1].name \o
                                   ". You're inventory is full!"),
        objects |-> objs]
  ELSE LET item == objs[object_id + 1]
       IN [inventory |-> Append(inv, item),
           messages |-> message(msgs, "You picked up a " \o item.name \o "!"),
           objects |-> swap_remove(objs, object_id)]

pick_up_item(inv, msgs, object_id, objs) ==
  IF Len(inv) >= INVENTORY_CAPACITY
  THEN [inventory |-> inv,
        messages |-> message(msgs, "You can't pick up the " \o objs[object_id + 1].name \o
                                   ". You're inventory is full!"),
        objects |-> objs]
  ELSE LET item == objs[object_id + 1]
       IN [inventory |-> Append(inv, item),
           messages |-> message(msgs, "You picked up a " \o item.name \o "!"),
           objects |-> swap_remove(objs, object_id)]

cast_heal(msgs, objs) ==
  IF IsSome(objs[PLAYER_IDX + 1].char_attributes)
  THEN LET ca == Unwrap(objs[PLAYER_IDX + 1].char_attributes)
       IN IF ca.hp = ca.max_hp
          THEN [result |-> "Cancelled",
                messages |-> message(msgs, "You're already at full health."),
                objects |-> objs]
          ELSE [result |-> "UsedUp",
                messages |-> message(msgs, "Your wounds begin to magically heal. Thanks potion!"),
                objects |-> [objs EXCEPT ![PLAYER_IDX + 1] = heal(objs[PLAYER_IDX + 1], HEAL_AMOUNT)]]
  ELSE [result |-> "Cancelled", messages |-> msgs, objects |-> objs]

\* use_item with swap_remove for remove
use_item_swap_remove(inventory_id, inv, msgs, objs) ==
  IF IsSome(inv[inventory_id + 1].item)
  THEN LET r == cast_heal(msgs, objs)
       IN IF r.result = "UsedUp"
          THEN [result |-> r.result, inventory |-> swap_remove(inv, inventory_id),
                messages |-> r.messages, objects |-> r.objects]
          ELSE [result |-> r.result, inventory |-> inv,
                messages |-> message(r.messages, "Cancelled"), objects |-> r.objects]
  ELSE [result |-> "Unusable", inventory |-> inv,
        messages |-> message(msgs, "The " \o inv[inventory_id + 1].name \o " cannot be used."),
        objects |-> objs]

\* use_item that removes the item whatever the effect returns
use_item_always_consumes(inventory_id, inv, msgs, objs) ==
  IF IsSome(inv[inventory_id + 1].item)
  THEN LET r == cast_heal(msgs, objs)
       IN IF r.result = "UsedUp"
          THEN [result |-> r.result, inventory |-> remove(inv, inventory_id),
                messages |-> r.messages, objects |-> r.objects]
          ELSE [result |-> r.result, inventory |-> remove(inv, inventory_id),
                messages |-> message(r.messages, "Cancelled"), objects |-> r.objects]
  ELSE [result |-> "Unusable", inventory |-> inv,
        messages |-> message(msgs, "The " \o inv[inventory_id + 1].name \o " cannot be used."),
        objects |-> objs]

\* use_item; result is the ItemUseResult of the effect, or "Unusable"
use_item(inventory_id, inv, msgs, objs) ==
  IF IsSome(inv[inventory_id + 1].item)
  THEN LET r == cast_heal(msgs, objs)   \* the only Item is Heal
       IN IF r.result = "UsedUp"
          THEN [result |-> r.result, inventory |-> remove(inv, inventory_id),
                messages |-> r.messages, objects |-> r.objects]
          ELSE [result |-> r.result, inventory |-> inv,
                messages |-> message(r.messages, "Cancelled"), objects |-> r.objects]
  ELSE [result |-> "Unusable", inventory |-> inv,
        messages |-> message(msgs, "The " \o inv[inventory_id + 1].name \o " cannot be used."),
        objects |-> objs]

---------------------------------------------------------------------------
(* Level generation *)

npc_name(label, objs) == label \o "_" \o ToString(Len(objs) + 1)

\* next_f32() in [0, 1), in tenths: one value on each side of every threshold
Rolls == {3, 4, 6, 7}

\* the monster of place_objects for a roll
NewMonster(roll, x, y, objs) ==
  LET made ==
        IF roll < 4
        THEN [ObjectNew(x, y, npc_name("Witch", objs), TRUE) EXCEPT
                !.char_attributes = Some(CharacterAttributes(13, 10, 4, 3)),
                !.brain = Some("Ai")]
        ELSE IF roll < 7
        THEN [ObjectNew(x, y, npc_name("Lizard", objs), TRUE) EXCEPT
                !.char_attributes = Some(CharacterAttributes(7, 5, 2, 1)),
                !.brain = Some("Ai")]
        ELSE [ObjectNew(x, y, npc_name("Wizard", objs), TRUE) EXCEPT
                !.char_attributes = Some(CharacterAttributes(16, 12, 3, 4)),
                !.brain = Some("Ai")]
  IN [made EXCEPT !.alive = TRUE]

\* the item of place_objects
NewItem(x, y) ==
  [ObjectNew(x, y, "Healing Potion", FALSE) EXCEPT !.alive = TRUE, !.item = Some("Heal")]

\* the monster loop of place_objects over the draws d[k..]: d[k] = [x, y, roll]
RECURSIVE PlaceMonsters(_, _, _, _)
PlaceMonsters(d, k, m, objs) ==
  IF k > Len(d) THEN objs
  ELSE LET coll_info == check_tile_for_collision(d[k].x, d[k].y, m, objs)
       IN PlaceMonsters(d, k + 1, m,
            IF ~coll_info.collision
            THEN Append(objs, NewMonster(d[k].roll, d[k].x, d[k].y, objs))
            ELSE objs)

\* the item loop of place_objects over the draws d[k..]: d[k] = [x, y]
RECURSIVE PlaceItems(_, _, _, _)
PlaceItems(d, k, m, objs) ==
  IF k > Len(d) THEN objs
  ELSE LET coll_info == check_tile_for_collision(d[k].x, d[k].y, m, objs)
       IN PlaceItems(d, k + 1, m,
            IF ~coll_info.collision THEN Append(objs, NewItem(d[k].x, d[k].y)) ELSE objs)

\* place_objects, given what the random stream returned
place_objects(monster_draws, item_draws, m, objs) ==
  PlaceItems(item_draws, 1, m, PlaceMonsters(monster_draws, 1, m, objs))

\* the draws of place_objects for a room, within the windows of the model
PosDrawsX(room) == {x \in gen_range(room.x1 + 1, room.x2) : x <= room.x1 + 1 + MaxPosDraw}
PosDrawsY(room) == {y \in gen_range(room.y1 + 1, room.y2) : y <= room.y1 + 1 + MaxPosDraw}

MonsterDraws(room) ==
  UNION {[1..n -> [x : PosDrawsX(room), y : PosDrawsY(room), roll : Rolls]] :
           n \in {n \in gen_range(0, MAX_ROOM_MONSTERS + 1) : n <= MaxMonsterDraw}}

ItemDraws(room) ==
  UNION {[1..n -> [x : PosDrawsX(room), y : PosDrawsY(room)]] :
           n \in {n \in gen_range(0, MAX_ROOM_ITEMS + 1) : n <= MaxItemDraw}}

\* the draws of make_map for a room, within the windows of the model
SizeDraws == {s \in gen_range(ROOM_MIN_SIZE, ROOM_MAX_SIZE + 1) : s <= ROOM_MIN_SIZE + MaxSizeDraw}
OriginStep == ROOM_MIN_SIZE + 1
OriginXDraws(w) == {x \in gen_range(0, MAP_WIDTH - w) :
                      \E c \in 0..MaxOriginCol : x = c * OriginStep}
OriginYDraws(h) == {y \in gen_range(0, MAP_HEIGHT - h) :
                      \E c \in 0..MaxOriginRow : y = c * OriginStep}

\* the body of make_map's loop for an accepted room
PlaceRoom(room, coin, monster_draws, item_draws, m, objs, rs) ==
  LET carved == create_room(room, m)
      new == center(room)
      prev == center(rs[Len(rs)])
      joined ==
        IF rs = <<>> THEN carved
        ELSE IF coin
        THEN create_v_tunnel(prev[2], new[2], new[1], create_h_tunnel(prev[1], new[1], prev[2], carved))
        ELSE create_h_tunnel(prev[1], new[1], new[2], create_v_tunnel(prev[2], new[2], prev[1], carved))
      moved ==
        IF rs = <<>>
        THEN [objs EXCEPT ![PLAYER_IDX + 1] = set_pos(objs[PLAYER_IDX + 1], new[1], new[2])]
        ELSE objs
  IN [map |-> joined,
      objects |-> place_objects(monster_draws, item_draws, joined, moved),
      rooms |-> Append(rs, room)]

can_place(room, rs) == ~ \E k \in 1..Len(rs) : intersects_with(room, rs[k])

---------------------------------------------------------------------------
(* The field-of-view oracle (tcod::map::Map), at its boundary *)

\* the radii within the torch radius at which the oracle's answer is cut off
FovRadii == {0, TORCH_RADIUS}

\* what compute_fov(x, y, radius, ..) may leave in view: the tiles of the map within
\* r of the origin, for an r up to the radius
FovDisc(x, y, r) ==
  {TileIndex(tx, ty) : <<tx, ty>> \in
     {p \in (Max(0, x - r)..Min(MAP_WIDTH - 1, x + r)) \X (Max(0, y - r)..Min(MAP_HEIGHT - 1, y + r)) :
        (p[1] - x) * (p[1] - x) + (p[2] - y) * (p[2] - y) <= r * r}}

compute_fov(x, y, radius) == {FovDisc(x, y, r) : r \in {r \in FovRadii : r <= radius}}

is_in_fov(f, x, y) == TileIndex(x, y) \in f

---------------------------------------------------------------------------
(* The turn engine *)

\* mut_two asserts first_index != second_index
mut_two_panics(first_index, second_index) == first_index = second_index

\* the map[..] access of check_tile_for_collision panics outside the vector
MovePanics(id, dx, dy, objs) == ~InMap(TileIndex(objs[id + 1].x + dx, objs[id + 1].y + dy))

player_move_or_attack(msgs, dx, dy, m, objs) ==
  LET mv == attempt_move(PLAYER_IDX, dx, dy, m, objs)
      ci == mv.coll_info
  IN IF MovePanics(PLAYER_IDX, dx, dy, objs)
     THEN [panic |-> TRUE, objects |-> objs, messages |-> msgs]
     ELSE IF ci.obj_collision /\ IsSome(ci.collision_id)
     THEN LET t == Unwrap(ci.collision_id)
              player == mv.objects[PLAYER_IDX + 1]
              target == mv.objects[t + 1]
          IN IF mut_two_panics(PLAYER_IDX, t)
             THEN [panic |-> TRUE, objects |-> objs, messages |-> msgs]
             ELSE IF target.alive
             THEN LET r == attack(player, target, msgs)
                  IN [panic |-> FALSE,
                      objects |-> [mv.objects EXCEPT ![PLAYER_IDX + 1] = r.self, ![t + 1] = r.target],
                      messages |-> r.messages]
             ELSE [panic |-> FALSE, objects |-> mv.objects,
                   messages |-> message(msgs, player.name \o " chops at the corpse of " \o
                                              target.name \o ". Blood sprays out.")]
     ELSE [panic |-> FALSE, objects |-> mv.objects, messages |-> msgs]

\* (d as f32 / distance).round() as i32 for distance = sqrt(d^2 + other^2):
\* |d| / distance >= 0.5 exactly when 3 d^2 >= other^2
StepToward(d, other) ==
  IF d # 0 /\ 3 * d * d >= other * other THEN (IF d > 0 THEN 1 ELSE -1) ELSE 0

move_towards(id, target, m, objs) ==
  LET dx == target[1] - objs[id + 1].x
      dy == target[2] - objs[id + 1].y
  IN attempt_move(id, StepToward(dx, dy), StepToward(dy, dx), m, objs).objects

MoveTowardsPanics(id, target, objs) ==
  LET dx == target[1] - objs[id + 1].x
      dy == target[2] - objs[id + 1].y
  IN MovePanics(id, StepToward(dx, dy), StepToward(dy, dx), objs)

\* Object::distance_to(other) >= 2.0, on the squared distance
DistanceAtLeast2(a, b) == (b.x - a.x) * (b.x - a.x) + (b.y - a.y) * (b.y - a.y) >= 4

\* ai_take_turn without the test of the player's alive flag
ai_take_turn_attacks_dead(msgs, f, id, m, objs) ==
  LET npc == objs[id + 1]
      player == objs[PLAYER_IDX + 1]
  IN IF is_in_fov(f, npc.x, npc.y)
     THEN IF DistanceAtLeast2(npc, player)
          THEN IF MoveTowardsPanics(id, Pos(player), objs)
               THEN [panic |-> TRUE, objects |-> objs, messages |-> msgs]
               ELSE [panic |-> FALSE, objects |-> move_towards(id, Pos(player), m, objs),
                     messages |-> msgs]
          ELSE IF mut_two_panics(id, PLAYER_IDX)
               THEN [panic |-> TRUE, objects |-> objs, messages |-> msgs]
               ELSE LET r == attack(npc, player, msgs)
                    IN [panic |-> FALSE,
                        objects |-> [objs EXCEPT ![id + 1] = r.self, ![PLAYER_IDX + 1] = r.target],
                        messages |-> r.messages]
     ELSE [panic |-> FALSE, objects |-> objs, messages |-> msgs]

ai_take_turn(msgs, f, id, m, objs) ==
  LET npc == objs[id + 1]
      player == objs[PLAYER_IDX + 1]
  IN IF is_in_fov(f, npc.x, npc.y)
     THEN IF DistanceAtLeast2(npc, player)
          THEN IF MoveTowardsPanics(id, Pos(player), objs)
               THEN [panic |-> TRUE, objects |-> objs, messages |-> msgs]
               ELSE [panic |-> FALSE, objects |-> move_towards(id, Pos(player), m, objs),
                     messages |-> msgs]
          ELSE IF player.alive
          THEN IF mut_two_panics(id, PLAYER_IDX)
               THEN [panic |-> TRUE, objects |-> objs, messages |-> msgs]
               ELSE LET r == attack(npc, player, msgs)
                    IN [panic |-> FALSE,
                        objects |-> [objs EXCEPT ![id + 1] = r.self, ![PLAYER_IDX + 1] = r.target],
                        messages |-> r.messages]
          ELSE [panic |-> FALSE, objects |-> objs, messages |-> msgs]
     ELSE [panic |-> FALSE, objects |-> objs, messages |-> msgs]

\* the keys handle_input tells apart; "Default" is Key::default() and any other key
Keys == {"Up", "Down", "Left", "Right", "i", "g", "Escape", "AltEnter", "Default"}

Step(key) ==
  CASE key = "Up" -> <<0, -1>>
    [] key = "Down" -> <<0, 1>>
    [] key = "Left" -> <<-1, 0>>
    [] key = "Right" -> <<1, 0>>

\* handle_input whose pickup takes a turn
handle_input_pickup_takes_turn(key, inv, msgs, m, objs) ==
  LET is_player_alive == objs[PLAYER_IDX + 1].alive
      same == [action |-> "DidntTakeTurn", panic |-> FALSE, objects |-> objs,
               messages |-> msgs, inventory |-> inv]
  IN CASE key = "AltEnter" -> same
       [] key = "Escape" -> [same EXCEPT !.action = "Exit"]
       [] key \in {"Up", "Down", "Left", "Right"} /\ is_player_alive ->
            LET r == player_move_or_attack(msgs, Step(key)[1], Step(key)[2], m, objs)
            IN [action |-> "TookTurn", panic |-> r.panic, objects |-> r.objects,
                messages |-> r.messages, inventory |-> inv]
       [] key = "i" /\ is_player_alive -> [same EXCEPT !.action = "TookTurn"]
       [] key = "g" /\ is_player_alive ->
            LET item_id == position({i \in 1..Len(objs) :
                                       IsSome(objs[i].item) /\ Pos(objs[i]) = Pos(objs[PLAYER_IDX + 1])})
            IN IF IsSome(item_id)
               THEN LET r == pick_up_item(inv, msgs, Unwrap(item_id), objs)
                    IN [action |-> "TookTurn", panic |-> FALSE, objects |-> r.objects,
                        messages |-> r.messages, inventory |-> r.inventory]
               ELSE same
       [] OTHER -> same

\* handle_input whose pickup takes whatever is on the player's tile
handle_input_picks_anything(key, inv, msgs, m, objs) ==
  LET is_player_alive == objs[PLAYER_IDX + 1].alive
      same == [action |-> "DidntTakeTurn", panic |-> FALSE, objects |-> objs,
               messages |-> msgs, inventory |-> inv]
  IN CASE key = "AltEnter" -> same
       [] key = "Escape" -> [same EXCEPT !.action = "Exit"]
       [] key \in {"Up", "Down", "Left", "Right"} /\ is_player_alive ->
            LET r == player_move_or_attack(msgs, Step(key)[1], Step(key)[2], m, objs)
            IN [action |-> "TookTurn", panic |-> r.panic, objects |-> r.objects,
                messages |-> r.messages, inventory |-> inv]
       [] key = "i" /\ is_player_alive -> [same EXCEPT !.action = "TookTurn"]
       [] key = "g" /\ is_player_alive ->
            LET item_id == position({i \in 1..Len(objs) :
                                       Pos(objs[i]) = Pos(objs[PLAYER_IDX + 1])})
            IN IF IsSome(item_id)
               THEN LET r == pick_up_item(inv, msgs, Unwrap(item_id), objs)
                    IN [action |-> "DidntTakeTurn", panic |-> FALSE, objects |-> r.objects,
                        messages |-> r.messages, inventory |-> r.inventory]
               ELSE same
       [] OTHER -> same

\* handle_input whose inventory key does not ask whether the player is alive
handle_input_inventory_when_dead(key, inv, msgs, m, objs) ==
  LET is_player_alive == objs[PLAYER_IDX + 1].alive
      same == [action |-> "DidntTakeTurn", panic |-> FALSE, objects |-> objs,
               messages |-> msgs, inventory |-> inv]
  IN CASE key = "AltEnter" -> same
       [] key = "Escape" -> [same EXCEPT !.action = "Exit"]
       [] key \in {"Up", "Down", "Left", "Right"} /\ is_player_alive ->
            LET r == player_move_or_attack(msgs, Step(key)[1], Step(key)[2], m, objs)
            IN [action |-> "TookTurn", panic |-> r.panic, objects |-> r.objects,
                messages |-> r.messages, inventory |-> inv]
       [] key = "i" -> [same EXCEPT !.action = "TookTurn"]
       [] key = "g" /\ is_player_alive ->
            LET item_id == position({i \in 1..Len(objs) :
                                       IsSome(objs[i].item) /\ Pos(objs[i]) = Pos(objs[PLAYER_IDX + 1])})
            IN IF IsSome(item_id)
               THEN LET r == pick_up_item(inv, msgs, Unwrap(item_id), objs)
                    IN [action |-> "DidntTakeTurn", panic |-> FALSE, objects |-> r.objects,
                        messages |-> r.messages, inventory |-> r.inventory]
               ELSE same
       [] OTHER -> same

handle_input(key, inv, msgs, m, objs) ==
  LET is_player_alive == objs[PLAYER_IDX + 1].alive
      same == [action |-> "DidntTakeTurn", panic |-> FALSE, objects |-> objs,
               messages |-> msgs, inventory |-> inv]
  IN CASE key = "AltEnter" -> same
       [] key = "Escape" -> [same EXCEPT !.action = "Exit"]
       [] key \in {"Up", "Down", "Left", "Right"} /\ is_player_alive ->
            LET r == player_move_or_attack(msgs, Step(key)[1], Step(key)[2], m, objs)
            IN [action |-> "TookTurn", panic |-> r.panic, objects |-> r.objects,
                messages |-> r.messages, inventory |-> inv]
       [] key = "i" /\ is_player_alive -> [same EXCEPT !.action = "TookTurn"]
       [] key = "g" /\ is_player_alive ->
            LET item_id == position({i \in 1..Len(objs) :
                                       IsSome(objs[i].item) /\ Pos(objs[i]) = Pos(objs[PLAYER_IDX + 1])})
            IN IF IsSome(item_id)
               THEN LET r == pick_up_item(inv, msgs, Unwrap(item_id), objs)
                    IN [action |-> "DidntTakeTurn", panic |-> FALSE, objects |-> r.objects,
                        messages |-> r.messages, inventory |-> r.inventory]
               ELSE same
       [] OTHER -> same

\* update_map that keeps as explored only what is in view
update_map_forgets(m, f, player_moved) ==
  IF player_moved
  THEN [m EXCEPT !.visible = {i \in f : InMap(i)},
                 !.explored = {i \in f : InMap(i)}]
  ELSE m

\* update_map
update_map(m, f, player_moved) ==
  IF player_moved
  THEN [m EXCEPT !.visible = {i \in f : InMap(i)},
                 !.explored = m.explored \cup {i \in f : InMap(i)}]
  ELSE m

---------------------------------------------------------------------------
(* main *)

Init ==
  /\ pc = "make_map"
  /\ objects = <<PlayerNew>>
  /\ map = AllWalls
  /\ rooms = <<>>
  /\ room_i = 0
  /\ messages = <<>>
  /\ game_running = TRUE
  /\ inventory = <<>>
  /\ fov = {}
  /\ keypress = "Default"
  /\ previous_player_pos = <<-1, -1>>
  /\ recompute_fov = FALSE
  /\ player_action = "DidntTakeTurn"
  /\ npc_id = 0
  /\ npc_len = 0
  /\ ticks = 0
  /\ calls = 0
  /\ thread_ctx = None

\* one iteration of make_map's loop
GenRoom ==
  /\ pc = "make_map"
  /\ room_i < MAX_ROOMS
  /\ \E w \in SizeDraws, h \in SizeDraws :
       \E x \in OriginXDraws(w), y \in OriginYDraws(h) :
         LET room == RectNew(x, y, w, h)
         IN IF can_place(room, rooms)
            THEN \E coin \in BOOLEAN, md \in MonsterDraws(room), itd \in ItemDraws(room) :
                   LET r == PlaceRoom(room, coin, md, itd, map, objects, rooms)
                   IN /\ map' = r.map
                      /\ objects' = r.objects
                      /\ rooms' = r.rooms
            ELSE UNCHANGED <<map, objects, rooms>>
  /\ room_i' = room_i + 1
  /\ UNCHANGED <<thread_ctx, pc, messages, game_running, inventory, fov, keypress, previous_player_pos,
                 recompute_fov, player_action, npc_id, npc_len, ticks, calls>>

\* make_map returns; main builds the oracle's map and game_state
GenDone ==
  /\ pc = "make_map"
  /\ room_i = MAX_ROOMS
  /\ pc' = "loop_top"
  /\ messages' = <<>>
  /\ game_running' = TRUE
  /\ inventory' = <<>>
  /\ keypress' = "Default"
  /\ previous_player_pos' = <<-1, -1>>
  /\ UNCHANGED <<thread_ctx, objects, map, rooms, room_i, fov, recompute_fov, player_action,
                 npc_id, npc_len, ticks, calls>>

\* the head of the loop with the oracle's compute made in every iteration
LoopTop_always_recomputes ==
  /\ pc = "loop_top"
  /\ game_running
  /\ ticks < MaxTicks
  /\ recompute_fov' = TRUE
  /\ fov' \in compute_fov(objects[PLAYER_IDX + 1].x, objects[PLAYER_IDX + 1].y, TORCH_RADIUS)
  /\ pc' = "event"
  /\ UNCHANGED <<thread_ctx, objects, map, rooms, room_i, messages, game_running, inventory, keypress,
                 previous_player_pos, player_action, npc_id, npc_len, ticks, calls>>

\* the head of the loop: recompute_fov and the oracle's compute
LoopTop ==
  /\ pc = "loop_top"
  /\ game_running
  /\ ticks < MaxTicks
  /\ LET player == objects[PLAYER_IDX + 1]
         moved == previous_player_pos # Pos(player)
     IN /\ recompute_fov' = moved
        /\ IF moved
           THEN fov' \in compute_fov(player.x, player.y, TORCH_RADIUS)
           ELSE fov' = fov
  /\ pc' = "event"
  /\ UNCHANGED <<thread_ctx, objects, map, rooms, room_i, messages, game_running, inventory, keypress,
                 previous_player_pos, player_action, npc_id, npc_len, ticks, calls>>

\* what check_for_event returns: a key press, a mouse event or nothing
Events == Keys \cup {"Mouse", "None"}

\* the match on check_for_event: a mouse event is kept in engine.mouse and leaves
\* keypress as it was, a key event is kept in keypress, anything else resets it
EventKey(ev, key) ==
  IF ev = "Mouse" THEN key
  ELSE IF ev = "None" THEN "Default" ELSE ev

\* the event match with the monsters updated after any outcome but Exit
PlayerTurn_npc_always ==
  /\ pc = "event"
  /\ \E ev \in Events, window_closed \in BOOLEAN :
       LET key == EventKey(ev, keypress)
           r == handle_input(key, inventory, messages, map, objects)
       IN /\ keypress' = key
          /\ previous_player_pos' = Pos(objects[PLAYER_IDX + 1])
          /\ IF r.panic
             THEN /\ pc' = "panic"
                  /\ UNCHANGED <<objects, messages, inventory, game_running, player_action,
                                 npc_id, npc_len>>
             ELSE /\ objects' = r.objects
                  /\ messages' = r.messages
                  /\ inventory' = r.inventory
                  /\ player_action' = r.action
                  /\ IF r.action = "Exit" \/ window_closed
                     THEN /\ game_running' = FALSE
                          /\ pc' = "done"
                          /\ UNCHANGED <<npc_id, npc_len>>
                     ELSE /\ game_running' = game_running
                          /\ pc' = "npc"
                          /\ npc_id' = 0
                          /\ npc_len' = Len(r.objects)
  /\ UNCHANGED <<thread_ctx, map, rooms, room_i, fov, recompute_fov, ticks, calls>>

\* the event match, handle_input and the exit test
PlayerTurn ==
  /\ pc = "event"
  /\ \E ev \in Events, window_closed \in BOOLEAN :
       LET key == EventKey(ev, keypress)
           r == handle_input(key, inventory, messages, map, objects)
       IN /\ keypress' = key
          /\ previous_player_pos' = Pos(objects[PLAYER_IDX + 1])
          /\ IF r.panic
             THEN /\ pc' = "panic"
                  /\ UNCHANGED <<objects, messages, inventory, game_running, player_action,
                                 npc_id, npc_len>>
             ELSE /\ objects' = r.objects
                  /\ messages' = r.messages
                  /\ inventory' = r.inventory
                  /\ player_action' = r.action
                  /\ IF r.action = "Exit" \/ window_closed
                     THEN /\ game_running' = FALSE
                          /\ pc' = "done"
                          /\ UNCHANGED <<npc_id, npc_len>>
                     ELSE /\ game_running' = game_running
                          /\ IF r.action = "TookTurn"
                             THEN /\ pc' = "npc"
                                  /\ npc_id' = 0
                                  /\ npc_len' = Len(r.objects)
                             ELSE /\ pc' = "update"
                                  /\ UNCHANGED <<npc_id, npc_len>>
  /\ UNCHANGED <<thread_ctx, map, rooms, room_i, fov, recompute_fov, ticks, calls>>

\* one iteration of `for id in 0..objects.len()`
NpcTurn ==
  /\ pc = "npc"
  /\ IF npc_id >= Len(objects)
     THEN /\ pc' = "panic"
          /\ UNCHANGED <<objects, messages, npc_id>>
     ELSE LET o == objects[npc_id + 1]
              r == IF IsSome(o.brain) /\ o.alive
                   THEN ai_take_turn(messages, fov, npc_id, map, objects)
                   ELSE [panic |-> FALSE, objects |-> objects, messages |-> messages]
          IN IF r.panic
             THEN /\ pc' = "panic"
                  /\ UNCHANGED <<objects, messages, npc_id>>
             ELSE /\ objects' = r.objects
                  /\ messages' = r.messages
                  /\ npc_id' = npc_id + 1
                  /\ pc' = IF npc_id + 1 = npc_len THEN "update" ELSE "npc"
  /\ UNCHANGED <<thread_ctx, map, rooms, room_i, game_running, inventory, fov, keypress,
                 previous_player_pos, recompute_fov, player_action, npc_len, ticks, calls>>

\* update_map and the end of the iteration (rendering reads the state only); the
\* locals of the loop body go out of scope
UpdateMap ==
  /\ pc = "update"
  /\ map' = update_map(map, fov, recompute_fov)
  /\ ticks' = ticks + 1
  /\ pc' = "loop_top"
  /\ recompute_fov' = FALSE
  /\ player_action' = "DidntTakeTurn"
  /\ npc_id' = 0
  /\ npc_len' = 0
  /\ UNCHANGED <<thread_ctx, objects, rooms, room_i, messages, game_running, inventory, fov, keypress,
                 previous_player_pos, calls>>

Next ==
  \/ GenRoom
  \/ GenDone
  \/ LoopTop
  \/ PlayerTurn
  \/ NpcTurn
  \/ UpdateMap

Spec == Init /\ [][Next]_vars

---------------------------------------------------------------------------
(* The call-level specification: the combat and item functions called in any  *)
(* order, with any argument of the sets below, on a one-room level as         *)
(* make_map builds it and an inventory of potions.                            *)

\* the damage and the amounts passed to take_damage and heal
DamageDraws == {-1, 0, 1, 5, 10, 30}
HealDraws == {-1, 0, 1, HEAL_AMOUNT}

\* the inventory lengths the calls start from
InventoryDraws == {0, 2, INVENTORY_CAPACITY - 1, INVENTORY_CAPACITY}

\* an inventory of n potions, picked up at n different places
Potions(n) == [k \in 1..n |-> NewItem(k, 1)]

CallRoom == RectNew(0, 0, ROOM_MIN_SIZE, ROOM_MIN_SIZE)

InitCalls ==
  /\ pc = "calls"
  /\ \E roll \in Rolls, n \in InventoryDraws :
       LET r == PlaceRoom(CallRoom, TRUE,
                          <<[x |-> 1, y |-> 1, roll |-> roll]>>,
                          <<[x |-> 3, y |-> 3], [x |-> 1, y |-> 2]>>,
                          AllWalls, <<PlayerNew>>, <<>>)
       IN /\ objects = r.objects
          /\ map = r.map
          /\ rooms = r.rooms
          /\ inventory = Potions(n)
  /\ room_i = MAX_ROOMS
  /\ messages = <<>>
  /\ game_running = TRUE
  /\ fov = {}
  /\ keypress = "Default"
  /\ previous_player_pos = <<-1, -1>>
  /\ recompute_fov = FALSE
  /\ player_action = "DidntTakeTurn"
  /\ npc_id = 0
  /\ npc_len = 0
  /\ ticks = 0
  /\ calls = 0
  /\ thread_ctx = None

CallFrame ==
  /\ pc = "calls"
  /\ calls < MaxCalls
  /\ calls' = calls + 1
  /\ UNCHANGED <<thread_ctx, pc, map, rooms, room_i, game_running, fov, keypress, previous_player_pos,
                 recompute_fov, player_action, npc_id, npc_len, ticks>>

\* objects[id].take_damage(damage, game_state)
CallTakeDamage(id, damage) ==
  /\ CallFrame
  /\ LET r == take_damage(objects[id + 1], damage, messages)
     IN /\ objects' = [objects EXCEPT ![id + 1] = r.obj]
        /\ messages' = r.messages
  /\ UNCHANGED inventory

\* objects[id].heal(amount)
CallHeal(id, amount) ==
  /\ CallFrame
  /\ objects' = [objects EXCEPT ![id + 1] = heal(objects[id + 1], amount)]
  /\ UNCHANGED <<messages, inventory>>

\* mut_two(a, t, objects) and a.attack(t, game_state)
CallAttack(a, t) ==
  /\ CallFrame
  /\ ~mut_two_panics(a, t)
  /\ LET r == attack(objects[a + 1], objects[t + 1], messages)
     IN /\ objects' = [objects EXCEPT ![a + 1] = r.self, ![t + 1] = r.target]
        /\ messages' = r.messages
  /\ UNCHANGED inventory

\* use_item(inventory_id, game_state, objects)
CallUseItem(inventory_id) ==
  /\ CallFrame
  /\ LET r == use_item(inventory_id, inventory, messages, objects)
     IN /\ inventory' = r.inventory
        /\ messages' = r.messages
        /\ objects' = r.objects

\* pick_up_item(game_state, object_id, objects) for an object that carries an item
CallPickUp(object_id) ==
  /\ CallFrame
  /\ IsSome(objects[object_id + 1].item)
  /\ LET r == pick_up_item(inventory, messages, object_id, objects)
     IN /\ inventory' = r.inventory
        /\ messages' = r.messages
        /\ objects' = r.objects

ObjectIds == 0..(Len(objects) - 1)
InventoryIds == 0..(Len(inventory) - 1)

NextCalls ==
  \/ \E id \in ObjectIds, damage \in DamageDraws : CallTakeDamage(id, damage)
  \/ \E id \in ObjectIds, amount \in HealDraws : CallHeal(id, amount)
  \/ \E a \in ObjectIds, t \in ObjectIds : CallAttack(a, t)
  \/ \E inventory_id \in InventoryIds : CallUseItem(inventory_id)
  \/ \E object_id \in ObjectIds : CallPickUp(object_id)

SpecCalls == InitCalls /\ [][NextCalls]_vars

---------------------------------------------------------------------------
(* The turn-level specification: on the same one-room level, the oracle's     *)
(* compute, a step of the player, damage to any entity and a monster's turn,  *)
(* in any order. It reaches what main needs 30 hits for: a dead player.       *)

\* engine.fov.compute_fov(player.x, player.y, TORCH_RADIUS, ..)
CallComputeFov ==
  /\ pc = "calls"
  /\ calls < MaxCalls
  /\ calls' = calls + 1
  /\ fov' \in compute_fov(objects[PLAYER_IDX + 1].x, objects[PLAYER_IDX + 1].y, TORCH_RADIUS)
  /\ UNCHANGED <<thread_ctx, pc, objects, map, rooms, room_i, messages, game_running, inventory, keypress,
                 previous_player_pos, recompute_fov, player_action, npc_id, npc_len, ticks>>

\* player_move_or_attack(game_state, dx, dy, objects), which handle_input calls for a
\* live player
CallPlayerMove(key) ==
  /\ CallFrame
  /\ objects[PLAYER_IDX + 1].alive
  /\ LET r == player_move_or_attack(messages, Step(key)[1], Step(key)[2], map, objects)
     IN /\ ~r.panic
        /\ objects' = r.objects
        /\ messages' = r.messages
  /\ UNCHANGED inventory

\* ai_take_turn(game_state, engine, id, objects), which main calls for a live entity
\* with a brain
CallAiTakeTurn(id) ==
  /\ CallFrame
  /\ IsSome(objects[id + 1].brain) /\ objects[id + 1].alive
  /\ LET r == ai_take_turn(messages, fov, id, map, objects)
     IN /\ ~r.panic
        /\ objects' = r.objects
        /\ messages' = r.messages
  /\ UNCHANGED inventory

NextTurns ==
  \/ CallComputeFov
  \/ \E key \in {"Up", "Down", "Left", "Right"} : CallPlayerMove(key)
  \/ \E id \in ObjectIds, damage \in DamageDraws : CallTakeDamage(id, damage)
  \/ \E id \in ObjectIds : CallAiTakeTurn(id)

SpecTurns == InitCalls /\ [][NextTurns]_vars

---------------------------------------------------------------------------
(* The generation-level specification: make_map alone, with the rooms drawn   *)
(* close to each other (apart, touching, overlapping) and at the far edge of  *)
(* the map.                                                                   *)

GenSizeDraws == {s \in gen_range(ROOM_MIN_SIZE, ROOM_MAX_SIZE + 1) : s <= ROOM_MIN_SIZE + MaxGenSize}

GenOriginXDraws(w) ==
  LET cols == <<0, w, w + 1, MAP_WIDTH - w - 1>>
  IN {x \in gen_range(0, MAP_WIDTH - w) : \E c \in 1..Len(cols) : c <= 1 + MaxGenCol /\ x = cols[c]}

GenOriginYDraws(h) ==
  LET rows == <<0, MAP_HEIGHT - h - 1, h, h + 1>>
  IN {y \in gen_range(0, MAP_HEIGHT - h) : \E c \in 1..Len(rows) : c <= 1 + MaxGenRow /\ y = rows[c]}

\* one iteration of make_map's loop, on these draws
GenRoomDense ==
  /\ pc = "make_map"
  /\ room_i < MAX_ROOMS
  /\ \E w \in GenSizeDraws, h \in GenSizeDraws :
       \E x \in GenOriginXDraws(w), y \in GenOriginYDraws(h) :
         LET room == RectNew(x, y, w, h)
         IN IF can_place(room, rooms)
            THEN \E coin \in BOOLEAN,
                    md \in {d \in MonsterDraws(room) : Len(d) <= MaxGenObjectDraw},
                    itd \in {d \in ItemDraws(room) : Len(d) <= MaxGenObjectDraw} :
                   LET r == PlaceRoom(room, coin, md, itd, map, objects, rooms)
                   IN /\ map' = r.map
                      /\ objects' = r.objects
                      /\ rooms' = r.rooms
            ELSE UNCHANGED <<map, objects, rooms>>
  /\ room_i' = room_i + 1
  /\ UNCHANGED <<thread_ctx, pc, messages, game_running, inventory, fov, keypress, previous_player_pos,
                 recompute_fov, player_action, npc_id, npc_len, ticks, calls>>

NextGen ==
  \/ GenRoomDense
  \/ GenDone

SpecGen == Init /\ [][NextGen]_vars

---------------------------------------------------------------------------
(* The level as a function of the seed: make_map on the stream of thread_ctx *)

\* the seed ThreadContext::new names as its default
DEFAULT_SEED == 69

\* the seeds given with --seed: DEFAULT_SEED and the MaxSeedDraw seeds after it
MaxSeedDraw == 8
\* the places the local `seed` of ThreadContext::new may have on the stack, beyond the
\* first
MaxAddressDraw == 1

\* the argument parsing of main: no --seed, or --seed with a number
SeedArguments == {None} \cup {Some(DEFAULT_SEED + k) : k \in 0..MaxSeedDraw}

\* &seed as *const i32 as usize: an address of an i32 in the frame of
\* ThreadContext::new, which the loader and the frames below it decide
SeedAddresses == {4096 + 16 * k : k \in 0..MaxAddressDraw}

\* StdRng, as far as the program depends on it: a stream that is a function of the
\* seed slice and of nothing else (here a linear congruence on 16 bits)
StdRng_from_seed(rng_seed) == rng_seed % 65537
StdRng_next(rand) == (rand * 75 + 74) % 65537

\* rand.gen_range(low, high): a value of [low, high) and the stream after the draw
rand_gen_range(rand, low, high) ==
  [value |-> low + (StdRng_next(rand) % (high - low)), rand |-> StdRng_next(rand)]

\* rand.gen::<bool>()
rand_gen_bool(rand) ==
  [value |-> (StdRng_next(rand) \div 16) % 2 = 1, rand |-> StdRng_next(rand)]

\* rand.next_f32(), in tenths
rand_next_f32(rand) ==
  [value |-> (StdRng_next(rand) \div 16) % 10, rand |-> StdRng_next(rand)]

_new_thread_context_from_seed(seed_val, rng_seed, custom_seed) ==
  [rand |-> StdRng_from_seed(rng_seed),
   custom_seed |-> custom_seed,
   rand_seed |-> rng_seed]

\* ThreadContext::new(): the slice that seeds the stream holds the address of `seed`
ThreadContext_new(address) ==
  LET seed == DEFAULT_SEED
  IN _new_thread_context_from_seed(seed, address, FALSE)

\* ThreadContext::from_seed(seed)
ThreadContext_from_seed(seed) == _new_thread_context_from_seed(seed, seed, TRUE)

\* the monster loop of place_objects on the stream, n iterations left
RECURSIVE place_monsters_on_stream(_, _, _, _, _)
place_monsters_on_stream(n, rand, room, m, objs) ==
  IF n = 0 THEN [rand |-> rand, objects |-> objs]
  ELSE LET x == rand_gen_range(rand, room.x1 + 1, room.x2)
           y == rand_gen_range(x.rand, room.y1 + 1, room.y2)
           coll_info == check_tile_for_collision(x.value, y.value, m, objs)
           roll == rand_next_f32(y.rand)
       IN IF ~coll_info.collision
          THEN place_monsters_on_stream(n - 1, roll.rand, room, m,
                 Append(objs, NewMonster(roll.value, x.value, y.value, objs)))
          ELSE place_monsters_on_stream(n - 1, y.rand, room, m, objs)

\* the item loop of place_objects on the stream, n iterations left
RECURSIVE place_items_on_stream(_, _, _, _, _)
place_items_on_stream(n, rand, room, m, objs) ==
  IF n = 0 THEN [rand |-> rand, objects |-> objs]
  ELSE LET x == rand_gen_range(rand, room.x1 + 1, room.x2)
           y == rand_gen_range(x.rand, room.y1 + 1, room.y2)
           coll_info == check_tile_for_collision(x.value, y.value, m, objs)
       IN place_items_on_stream(n - 1, y.rand, room, m,
            IF ~coll_info.collision THEN Append(objs, NewItem(x.value, y.value)) ELSE objs)

\* place_objects on the stream
place_objects_on_stream(rand, room, m, objs) ==
  LET num_monsters == rand_gen_range(rand, 0, MAX_ROOM_MONSTERS + 1)
      monsters == place_monsters_on_stream(num_monsters.value, num_monsters.rand, room, m, objs)
      num_items == rand_gen_range(monsters.rand, 0, MAX_ROOM_ITEMS + 1)
  IN place_items_on_stream(num_items.value, num_items.rand, room, m, monsters.objects)

\* one iteration of make_map's loop on the stream; g holds the stream, the map, the
\* objects and the rooms
make_map_iteration(g) ==
  LET w == rand_gen_range(g.rand, ROOM_MIN_SIZE, ROOM_MAX_SIZE + 1)
      h == rand_gen_range(w.rand, ROOM_MIN_SIZE, ROOM_MAX_SIZE + 1)
      x == rand_gen_range(h.rand, 0, MAP_WIDTH - w.value)
      y == rand_gen_range(x.rand, 0, MAP_HEIGHT - h.value)
      room == RectNew(x.value, y.value, w.value, h.value)
      coin == IF g.rooms = <<>> THEN [value |-> TRUE, rand |-> y.rand]
              ELSE rand_gen_bool(y.rand)
      r == PlaceRoom(room, coin.value, <<>>, <<>>, g.map, g.objects, g.rooms)
      placed == place_objects_on_stream(coin.rand, room, r.map, r.objects)
  IN IF can_place(room, g.rooms)
     THEN [rand |-> placed.rand, map |-> r.map, objects |-> placed.objects, rooms |-> r.rooms]
     ELSE [g EXCEPT !.rand = y.rand]

\* make_map from iteration i on
RECURSIVE make_map_from(_, _)
make_map_from(i, g) ==
  IF i = MAX_ROOMS THEN g ELSE make_map_from(i + 1, make_map_iteration(g))

\* make_map(thread_ctx, objects)
make_map(rand, objs) ==
  make_map_from(0, [rand |-> rand, map |-> AllWalls, objects |-> objs, rooms |-> <<>>])

\* main up to make_map: the arguments are read and thread_ctx is built
InitSeed ==
  /\ pc = "make_map"
  /\ objects = <<PlayerNew>>
  /\ map = AllWalls
  /\ rooms = <<>>
  /\ room_i = 0
  /\ messages = <<>>
  /\ game_running = TRUE
  /\ inventory = <<>>
  /\ fov = {}
  /\ keypress = "Default"
  /\ previous_player_pos = <<-1, -1>>
  /\ recompute_fov = FALSE
  /\ player_action = "DidntTakeTurn"
  /\ npc_id = 0
  /\ npc_len = 0
  /\ ticks = 0
  /\ calls = 0
  /\ \E provided_rng_seed \in SeedArguments :
       IF IsSome(provided_rng_seed)
       THEN thread_ctx = Some(ThreadContext_from_seed(Unwrap(provided_rng_seed)))
       ELSE \E address \in SeedAddresses : thread_ctx = Some(ThreadContext_new(address))

\* one iteration of make_map's loop, its draws taken from thread_ctx.rand
GenRoomSeeded ==
  /\ pc = "make_map"
  /\ room_i < MAX_ROOMS
  /\ IsSome(thread_ctx)
  /\ LET g == make_map_iteration([rand |-> Unwrap(thread_ctx).rand, map |-> map,
                                  objects |-> objects, rooms |-> rooms])
     IN /\ map' = g.map
        /\ objects' = g.objects
        /\ rooms' = g.rooms
        /\ thread_ctx' = Some([Unwrap(thread_ctx) EXCEPT !.rand = g.rand])
  /\ room_i' = room_i + 1
  /\ UNCHANGED <<pc, messages, game_running, inventory, fov, keypress, previous_player_pos,
                 recompute_fov, player_action, npc_id, npc_len, ticks, calls>>

NextSeed ==
  \/ GenRoomSeeded
  \/ GenDone

SpecSeed == InitSeed /\ [][NextSeed]_vars

---------------------------------------------------------------------------
(* The log-level specification: the callers of message() called in any order *)
(* on the one-room level, for long enough to fill the log and go on.         *)

\* the number of calls made
MaxLogCalls == 7

LogFrame ==
  /\ pc = "calls"
  /\ calls < MaxLogCalls
  /\ calls' = calls + 1
  /\ UNCHANGED <<thread_ctx, pc, map, rooms, room_i, game_running, fov, keypress, previous_player_pos,
                 recompute_fov, player_action, npc_id, npc_len, ticks>>

\* mut_two(a, t, objects) and a.attack(t, game_state), between the player and a monster
LogAttack(a, t) ==
  /\ LogFrame
  /\ ~mut_two_panics(a, t)
  /\ IsSome(objects[a + 1].char_attributes)
  /\ IsSome(objects[t + 1].char_attributes)
  /\ LET r == attack(objects[a + 1], objects[t + 1], messages)
     IN /\ objects' = [objects EXCEPT ![a + 1] = r.self, ![t + 1] = r.target]
        /\ messages' = r.messages
  /\ UNCHANGED inventory

\* use_item(inventory_id, game_state, objects)
LogUseItem(inventory_id) ==
  /\ LogFrame
  /\ LET r == use_item(inventory_id, inventory, messages, objects)
     IN /\ inventory' = r.inventory
        /\ messages' = r.messages
        /\ objects' = r.objects

\* pick_up_item(game_state, object_id, objects) for an object that carries an item
LogPickUp(object_id) ==
  /\ LogFrame
  /\ IsSome(objects[object_id + 1].item)
  /\ LET r == pick_up_item(inventory, messages, object_id, objects)
     IN /\ inventory' = r.inventory
        /\ messages' = r.messages
        /\ objects' = r.objects

NextLog ==
  \/ \E a \in ObjectIds, t \in ObjectIds : LogAttack(a, t)
  \/ \E inventory_id \in {0} \cap InventoryIds : LogUseItem(inventory_id)
  \/ \E object_id \in ObjectIds : LogPickUp(object_id)

SpecLog == InitCalls /\ [][NextLog]_vars

---------------------------------------------------------------------------
(* The input-level specification: handle_input called with any key, on levels *)
(* of one or two rooms as make_map builds them, with up to MAX_ROOM_ITEMS     *)
(* potions next to the player, also on one tile, and an inventory of potions. *)

\* the places of the potions of the first room: above the player, and the corner
InputItemDraws ==
  UNION {[1..n -> {[x |-> 2, y |-> 1], [x |-> 1, y |-> 1]}] : n \in gen_range(0, MAX_ROOM_ITEMS + 1)}

InputSecondRoom == RectNew(ROOM_MIN_SIZE + 1, 0, ROOM_MIN_SIZE, ROOM_MIN_SIZE)

InitInput ==
  /\ pc = "calls"
  /\ \E itd \in InputItemDraws, second \in BOOLEAN, n \in InventoryDraws :
       LET first == PlaceRoom(CallRoom, TRUE, <<>>, itd, AllWalls, <<PlayerNew>>, <<>>)
           r == IF second
                THEN PlaceRoom(InputSecondRoom, TRUE,
                               <<[x |-> InputSecondRoom.x1 + 1, y |-> 1, roll |-> 3]>>, <<>>,
                               first.map, first.objects, first.rooms)
                ELSE first
       IN /\ objects = r.objects
          /\ map = r.map
          /\ rooms = r.rooms
          /\ inventory = Potions(n)
  /\ room_i = MAX_ROOMS
  /\ messages = <<>>
  /\ game_running = TRUE
  /\ fov = {}
  /\ keypress = "Default"
  /\ previous_player_pos = <<-1, -1>>
  /\ recompute_fov = FALSE
  /\ player_action = "DidntTakeTurn"
  /\ npc_id = 0
  /\ npc_len = 0
  /\ ticks = 0
  /\ calls = 0
  /\ thread_ctx = None

\* handle_input(key, game_state, engine, objects); main keeps what it returns in
\* player_action
CallHandleInput(key) ==
  /\ pc = "calls"
  /\ calls < MaxCalls
  /\ calls' = calls + 1
  /\ LET r == handle_input(key, inventory, messages, map, objects)
     IN /\ ~r.panic
        /\ objects' = r.objects
        /\ messages' = r.messages
        /\ inventory' = r.inventory
        /\ player_action' = r.action
  /\ keypress' = key
  /\ UNCHANGED <<thread_ctx, pc, map, rooms, room_i, game_running, fov, previous_player_pos,
                 recompute_fov, npc_id, npc_len, ticks>>

NextInput == \E key \in Keys : CallHandleInput(key)

SpecInput == InitInput /\ [][NextInput]_vars

---------------------------------------------------------------------------
(* The edge-level specification: levels whose rooms lie in the corners of the *)
(* map, at the least and the greatest origin make_map can draw, joined by a   *)
(* tunnel across the map; on them the calls of the turn-level specification.  *)

\* origins past the last column a room fits in
EdgeOriginXDraws_past_the_edge(w) == {0, MAP_WIDTH - w + 1}

\* the least and the greatest of gen_range(0, MAP_WIDTH - w)
EdgeOriginXDraws(w) == {x \in gen_range(0, MAP_WIDTH - w) : x = 0 \/ x = MAP_WIDTH - w - 1}

\* the least and the greatest of gen_range(0, MAP_HEIGHT - h)
EdgeOriginYDraws(h) == {y \in gen_range(0, MAP_HEIGHT - h) : y = 0 \/ y = MAP_HEIGHT - h - 1}

EdgeRooms ==
  {RectNew(x, y, ROOM_MIN_SIZE, ROOM_MIN_SIZE) :
     x \in EdgeOriginXDraws(ROOM_MIN_SIZE), y \in EdgeOriginYDraws(ROOM_MIN_SIZE)}

InitEdge ==
  /\ pc = "calls"
  /\ \E room \in EdgeRooms, roll \in {3, 7}, others \in {0, 1}, coin \in BOOLEAN :
       LET first == PlaceRoom(room, TRUE,
                              <<[x |-> room.x1 + 1, y |-> room.y1 + 1, roll |-> roll]>>, <<>>,
                              AllWalls, <<PlayerNew>>, <<>>)
           far == CHOOSE r \in EdgeRooms : r.x1 # room.x1 /\ r.y1 # room.y1
           r == IF others = 1 /\ can_place(far, first.rooms)
                THEN PlaceRoom(far, coin, <<>>, <<>>, first.map, first.objects, first.rooms)
                ELSE first
       IN /\ objects = r.objects
          /\ map = r.map
          /\ rooms = r.rooms
          /\ others = 0 => coin
  /\ inventory = <<>>
  /\ room_i = MAX_ROOMS
  /\ messages = <<>>
  /\ game_running = TRUE
  /\ fov = {}
  /\ keypress = "Default"
  /\ previous_player_pos = <<-1, -1>>
  /\ recompute_fov = FALSE
  /\ player_action = "DidntTakeTurn"
  /\ npc_id = 0
  /\ npc_len = 0
  /\ ticks = 0
  /\ calls = 0
  /\ thread_ctx = None

SpecEdge == InitEdge /\ [][NextTurns]_vars

---------------------------------------------------------------------------
(* The last ticks of the player: the main loop on a one-room level where the  *)
(* player has stood still next to the wizard, opening the inventory tick      *)
(* after tick, until one or two more hits kill it.                            *)

\* the hits the player can still take
HitsLeftDraws == {1, 2}

\* the level: the wizard in the corner next to the player, a potion above the player
DeathLevel ==
  PlaceRoom(CallRoom, TRUE, <<[x |-> 1, y |-> 1, roll |-> 7]>>, <<[x |-> 2, y |-> 1]>>,
            AllWalls, <<PlayerNew>>, <<>>)

\* what the first compute_fov of main leaves in view with the torch's radius
DeathFov == FovDisc(DeathLevel.objects[PLAYER_IDX + 1].x, DeathLevel.objects[PLAYER_IDX + 1].y,
                    TORCH_RADIUS)

\* n ticks with the key i: handle_input returns TookTurn and changes nothing, and the
\* loop over the monsters runs ai_take_turn for the wizard, entity 1
RECURSIVE InventoryTicks(_, _, _)
InventoryTicks(n, objs, msgs) ==
  IF n = 0 THEN [objects |-> objs, messages |-> msgs]
  ELSE LET r == ai_take_turn(msgs, DeathFov, 1, DeathLevel.map, objs)
       IN IF r.panic THEN [objects |-> objs, messages |-> msgs]
          ELSE InventoryTicks(n - 1, r.objects, r.messages)

InitDeath ==
  /\ pc = "loop_top"
  /\ \E left \in HitsLeftDraws :
       LET hp == Unwrap(PlayerNew.char_attributes).hp
           r == InventoryTicks(hp - left, DeathLevel.objects, <<>>)
       IN /\ objects = r.objects
          /\ messages = r.messages
  /\ map = update_map(DeathLevel.map, DeathFov, TRUE)
  /\ rooms = DeathLevel.rooms
  /\ room_i = MAX_ROOMS
  /\ game_running = TRUE
  /\ inventory = <<>>
  /\ fov = DeathFov
  /\ keypress = "i"
  /\ previous_player_pos = Pos(DeathLevel.objects[PLAYER_IDX + 1])
  /\ recompute_fov = FALSE
  /\ player_action = "DidntTakeTurn"
  /\ npc_id = 0
  /\ npc_len = 0
  /\ ticks = 0
  /\ calls = 0
  /\ thread_ctx = None

NextLoop ==
  \/ LoopTop
  \/ PlayerTurn
  \/ NpcTurn
  \/ UpdateMap

SpecDeath == InitDeath /\ [][NextLoop]_vars

---------------------------------------------------------------------------
(* Vocabulary of the properties *)

HasAttrs(o) == IsSome(o.char_attributes)
Hp(o) == Unwrap(o.char_attributes).hp
MaxHp(o) == Unwrap(o.char_attributes).max_hp

\* the log after one more entry, the oldest entry leaving a full log
LogAppended(old, text) ==
  IF Len(old) < MSG_HEIGHT THEN old \o <<text>> ELSE SubSeq(old, 2, Len(old)) \o <<text>>

LastMessage == messages[Len(messages)]

\* v without its entry of 0-based index k, the others in their order
WithoutEntry(v, k) == [j \in 1..(Len(v) - 1) |-> IF j <= k THEN v[j] ELSE v[j + 1]]

Player == objects[PLAYER_IDX + 1]

---------------------------------------------------------------------------
(* C1: every entity that carries combat attributes has 0 <= hp <= max_hp, on  *)
(* the map and in the inventory, in every state reached from a generated room *)
(* by attack, take_damage, heal and item uses.                                *)
C1_HpInRange ==
  /\ \A i \in 1..Len(objects) :
       HasAttrs(objects[i]) => 0 <= Hp(objects[i]) /\ Hp(objects[i]) <= MaxHp(objects[i])
  /\ \A i \in 1..Len(inventory) :
       HasAttrs(inventory[i]) => 0 <= Hp(inventory[i]) /\ Hp(inventory[i]) <= MaxHp(inventory[i])

\* an entity was brought to hp 0 and a monster, spawned below max_hp, was healed up to it
C1_Witness ==
  /\ pc = "calls"
  /\ \E i \in 1..Len(objects) : HasAttrs(objects[i]) /\ Hp(objects[i]) = 0
  /\ \E j \in 2..Len(objects) :
       HasAttrs(objects[j]) /\ objects[j].alive /\ Hp(objects[j]) = MaxHp(objects[j])

(* C2: alive never goes from false to true, and an entity whose hp is 0 is    *)
(* not alive in that state nor in any later one, whatever call follows. A     *)
(* step that changes the length of objects (a pickup) only moves entities.    *)
C2_DeadAtZero ==
  \A i \in 1..Len(objects) : (HasAttrs(objects[i]) /\ Hp(objects[i]) = 0) => ~objects[i].alive

C2_StaysDead ==
  IF Len(objects') = Len(objects)
  THEN \A i \in 1..Len(objects) :
         (~objects[i].alive \/ (HasAttrs(objects[i]) /\ Hp(objects[i]) = 0))
           => ~objects'[i].alive
  ELSE \A j \in 1..Len(objects') : \E i \in 1..Len(objects) : objects'[j] = objects[i]

C2_AliveOnce == [](C2_DeadAtZero) /\ [][C2_StaysDead]_vars

\* the player died and a potion was used on it afterwards: it is still dead, at hp 0
C2_Witness ==
  /\ pc = "calls"
  /\ ~Player.alive
  /\ Hp(Player) = 0
  /\ messages = <<"Player Bob died!", "Your wounds begin to magically heal. Thanks potion!">>

(* C3: once the level is generated, every blocking entity stands on a         *)
(* passable tile and no two blocking entities share a tile. A player move and *)
(* an NPC's step towards the player put the mover on the destination exactly  *)
(* when that tile is passable and holds no blocking entity, and leave it      *)
(* where it was otherwise; no other entity changes position.                  *)
C3_Placement ==
  pc # "make_map" =>
    /\ \A i \in 1..Len(objects) :
         objects[i].blocks => TileIndex(objects[i].x, objects[i].y) \in map.passable
    /\ \A i \in 1..Len(objects), j \in 1..Len(objects) :
         (i # j /\ objects[i].blocks /\ objects[j].blocks) => Pos(objects[i]) # Pos(objects[j])

C3_Free(x, y) ==
  /\ TileIndex(x, y) \in map.passable
  /\ \A i \in 1..Len(objects) : ~(objects[i].blocks /\ Pos(objects[i]) = <<x, y>>)

C3_Moved(i, dx, dy) ==
  Pos(objects'[i]) = IF C3_Free(objects[i].x + dx, objects[i].y + dy)
                     THEN <<objects[i].x + dx, objects[i].y + dy>>
                     ELSE Pos(objects[i])

C3_NpcSteps ==
  /\ pc = "npc"
  /\ npc_id < Len(objects)
  /\ IsSome(objects[npc_id + 1].brain)
  /\ objects[npc_id + 1].alive
  /\ is_in_fov(fov, objects[npc_id + 1].x, objects[npc_id + 1].y)
  /\ DistanceAtLeast2(objects[npc_id + 1], Player)

C3_PlayerSteps ==
  /\ pc = "event"
  /\ keypress' \in {"Up", "Down", "Left", "Right"}
  /\ Player.alive

C3_MoveStep ==
  (pc # "make_map" /\ pc' # "panic") =>
    /\ C3_PlayerSteps
         => C3_Moved(PLAYER_IDX + 1, Step(keypress')[1], Step(keypress')[2])
    /\ C3_NpcSteps
         => C3_Moved(npc_id + 1,
                     StepToward(Player.x - objects[npc_id + 1].x, Player.y - objects[npc_id + 1].y),
                     StepToward(Player.y - objects[npc_id + 1].y, Player.x - objects[npc_id + 1].x))
    /\ Len(objects') = Len(objects)
         => \A i \in 1..Len(objects) :
              Pos(objects'[i]) # Pos(objects[i])
                => \/ C3_PlayerSteps /\ i = PLAYER_IDX + 1
                   \/ C3_NpcSteps /\ i = npc_id + 1

C3_Movement == [](C3_Placement) /\ [][C3_MoveStep]_vars

\* the player stepped away from its spawn, the witch left the cell it was placed on, and a
\* move of the player into the witch's tile was refused and became an attack
C3_Witness ==
  /\ pc = "loop_top"
  /\ Pos(Player) # center(rooms[1])
  /\ \E i \in 2..Len(objects) :
       /\ objects[i].name = "Witch_2"
       /\ objects[i].blocks
       /\ \A k \in 1..Len(rooms) :
            ~(objects[i].x \in PosDrawsX(rooms[k]) /\ objects[i].y \in PosDrawsY(rooms[k]))
  /\ \E k \in 1..Len(messages) : messages[k] = "Player Bob attacks Witch_2 and deals 3 damage!"

(* C4: attack(a, t) computes damage = a.power - t.defense, a missing          *)
(* attribute block counting as 0. The attacker is left as it was. With        *)
(* damage > 0 and a live target that has combat attributes, the target's hp   *)
(* drops by min(damage, hp). With damage <= 0 no entity changes and one       *)
(* "no effect" message is logged.                                             *)
C4_AttackStep ==
  \A a \in ObjectIds, t \in ObjectIds :
    CallAttack(a, t) =>
      LET A == objects[a + 1]
          T == objects[t + 1]
          damage == (IF HasAttrs(A) THEN Unwrap(A.char_attributes).power ELSE 0)
                    - (IF HasAttrs(T) THEN Unwrap(T.char_attributes).defense ELSE 0)
      IN /\ objects'[a + 1] = A
         /\ (damage > 0 /\ T.alive /\ HasAttrs(T))
              => Hp(objects'[t + 1]) = Hp(T) - Min(damage, Hp(T))
         /\ damage <= 0
              => /\ objects' = objects
                 /\ inventory' = inventory
                 /\ messages' = LogAppended(messages, A.name \o " attacks " \o T.name \o
                                                      ", but it has no effect!")

C4_Attack == [][C4_AttackStep]_vars

\* the player hit the witch (7 - 4 = 3 of its 10 hp) and the witch hit back without effect
C4_Witness ==
  /\ pc = "calls"
  /\ Len(objects) >= 2
  /\ objects[2].name = "Witch_2"
  /\ Hp(objects[2]) = 7
  /\ messages = <<"Player Bob attacks Witch_2 and deals 3 damage!",
                  "Witch_2 attacks Player Bob, but it has no effect!">>

(* C5: death handling runs once per entity. The death message of an entity is *)
(* the last entry logged by the step that takes it from alive to dead, with   *)
(* hp 0, and no other step ends on a death message; take_damage on a dead entity changes nothing, log included;    *)
(* and a dead entity is never changed again, so its name gets one marker.     *)
C5_DeathStep ==
  Len(objects') = Len(objects) =>
    /\ \A i \in 1..Len(objects) :
         (objects[i].alive /\ ~objects'[i].alive)
           => /\ Hp(objects'[i]) = 0
              /\ messages' # <<>>
              /\ messages'[Len(messages')] = objects[i].name \o " died!"
              /\ \A j \in 1..Len(objects) : j # i => objects'[j].alive = objects[j].alive
    /\ (\A i \in 1..Len(objects) : objects'[i].alive = objects[i].alive)
         => \/ messages' = messages
            \/ ~ \E i \in 1..Len(objects) : messages'[Len(messages')] = objects[i].name \o " died!"
    /\ \A id \in ObjectIds, damage \in DamageDraws :
         (CallTakeDamage(id, damage) /\ ~objects[id + 1].alive)
           => objects' = objects /\ messages' = messages /\ inventory' = inventory
    /\ \A i \in 1..Len(objects) : ~objects[i].alive => objects'[i] = objects[i]

C5_DeathOnce == [][C5_DeathStep]_vars

\* the lizard was killed and then attacked again: take_damage ran on the corpse and
\* left no second death message and no second marker
C5_Witness ==
  /\ pc = "calls"
  /\ Len(objects) >= 2
  /\ objects[2].name = "Lizard_2 [corpse]"
  /\ ~objects[2].alive
  /\ messages = <<"Player Bob attacks Lizard_2 and deals 5 damage!",
                  "Lizard_2 died!",
                  "Player Bob attacks Lizard_2 [corpse] and deals 5 damage!">>

(* C6: in the step in which an entity dies, blocks becomes false; an entity   *)
(* with the AI capability loses it and gets " [corpse]" appended to its name; *)
(* one without it (the player) keeps its name. Position, max_hp, defense,     *)
(* power and the item capability are unchanged.                               *)
C6_DeathEffectsStep ==
  Len(objects') = Len(objects) =>
    \A i \in 1..Len(objects) :
      (objects[i].alive /\ ~objects'[i].alive) =>
        LET o == objects[i]
            n == objects'[i]
        IN /\ n.blocks = FALSE
           /\ n.brain = None
           /\ IF IsSome(o.brain) THEN n.name = o.name \o " [corpse]" ELSE n.name = o.name
           /\ Pos(n) = Pos(o)
           /\ n.item = o.item
           /\ n.char_attributes = Some([Unwrap(o.char_attributes) EXCEPT !.hp = Hp(n)])

C6_DeathEffects == [][C6_DeathEffectsStep]_vars

\* both kinds of death happened: the player's and a monster's
C6_Witness ==
  /\ pc = "calls"
  /\ Len(objects) >= 2
  /\ ~Player.alive /\ Player.name = "Player Bob" /\ ~Player.blocks
  /\ ~objects[2].alive /\ objects[2].name = "Wizard_2 [corpse]" /\ ~objects[2].blocks
  /\ objects[2].brain = None

(* C7: heal(amount) on a live entity with amount > 0 sets hp to               *)
(* min(max_hp, hp + amount) and changes nothing else; on a dead entity or     *)
(* with amount <= 0 it changes nothing.                                       *)
C7_HealStep ==
  \A id \in ObjectIds, amount \in HealDraws :
    CallHeal(id, amount) =>
      LET o == objects[id + 1]
      IN /\ messages' = messages
         /\ inventory' = inventory
         /\ \A j \in 1..Len(objects) : j # id + 1 => objects'[j] = objects[j]
         /\ IF o.alive /\ amount > 0 /\ HasAttrs(o)
            THEN /\ Hp(objects'[id + 1]) = Min(MaxHp(o), Hp(o) + amount)
                 /\ objects'[id + 1] =
                      [o EXCEPT !.char_attributes =
                         Some([Unwrap(o.char_attributes) EXCEPT !.hp = Hp(objects'[id + 1])])]
            ELSE objects'[id + 1] = o

C7_Heal == [][C7_HealStep]_vars

\* the witch, spawned at 10 of 13 hp, was healed by 1
C7_Witness ==
  /\ pc = "calls"
  /\ Len(objects) >= 2
  /\ objects[2].name = "Witch_2"
  /\ objects[2].alive
  /\ Hp(objects[2]) = 11

(* C8 as stated: using a Heal item while the player's hp is below max_hp sets  *)
(* the player's hp to min(max_hp, hp + 8) and removes exactly that inventory  *)
(* entry, the others keeping their order.                                     *)
C8_UsedUpEffect(inventory_id) ==
  /\ Hp(objects'[PLAYER_IDX + 1]) = Min(MaxHp(Player), Hp(Player) + HEAL_AMOUNT)
  /\ objects' = [objects EXCEPT ![PLAYER_IDX + 1] =
                   [Player EXCEPT !.char_attributes =
                      Some([Unwrap(Player.char_attributes) EXCEPT
                              !.hp = Hp(objects'[PLAYER_IDX + 1])])]]
  /\ inventory' = WithoutEntry(inventory, inventory_id)

C8_AsStatedStep ==
  \A inventory_id \in InventoryIds :
    (/\ CallUseItem(inventory_id)
     /\ inventory[inventory_id + 1].item = Some("Heal")
     /\ HasAttrs(Player)
     /\ Hp(Player) < MaxHp(Player))
      => C8_UsedUpEffect(inventory_id)

C8_AsStated == [][C8_AsStatedStep]_vars

(* C8, amended: using a Heal item while the player is alive and its hp is     *)
(* below max_hp sets the player's hp to min(max_hp, hp + 8), changes no other *)
(* field of any entity, and removes exactly that inventory entry, the others  *)
(* keeping their order.                                                       *)
C8_UseHealStep ==
  \A inventory_id \in InventoryIds :
    (/\ CallUseItem(inventory_id)
     /\ inventory[inventory_id + 1].item = Some("Heal")
     /\ HasAttrs(Player)
     /\ Player.alive
     /\ Hp(Player) < MaxHp(Player))
      => C8_UsedUpEffect(inventory_id)

C8_UseHeal == [][C8_UseHealStep]_vars

\* the live player, hurt by 10, used the first of 25 potions: hp 28, and the 24 others
\* are left in their order
C8_Witness ==
  /\ pc = "calls"
  /\ Player.alive
  /\ Hp(Player) = 28
  /\ inventory = WithoutEntry(Potions(INVENTORY_CAPACITY - 1), 0)
  /\ messages # <<>>
  /\ LastMessage = "Your wounds begin to magically heal. Thanks potion!"

(* C9: using a Heal item while the player's hp equals max_hp is cancelled:    *)
(* the inventory and every entity are unchanged and the log gets the two      *)
(* cancellation messages and nothing else.                                    *)
C9_CancelledStep ==
  \A inventory_id \in InventoryIds :
    (/\ CallUseItem(inventory_id)
     /\ inventory[inventory_id + 1].item = Some("Heal")
     /\ HasAttrs(Player)
     /\ Hp(Player) = MaxHp(Player))
      => /\ inventory' = inventory
         /\ objects' = objects
         /\ messages' = LogAppended(LogAppended(messages, "You're already at full health."),
                                    "Cancelled")

C9_Cancelled == [][C9_CancelledStep]_vars

\* a potion was used at full health: both messages are in the log, the potions are all there
C9_Witness ==
  /\ pc = "calls"
  /\ Hp(Player) = MaxHp(Player)
  /\ inventory = Potions(2)
  /\ messages = <<"You're already at full health.", "Cancelled">>

(* C10: the inventory never holds more than 26 entries, and a pickup          *)
(* attempted at 26 entries leaves the inventory and the entity collection     *)
(* (indices and positions) as they were and logs the capacity message.        *)
C10_WithinCapacity == Len(inventory) <= INVENTORY_CAPACITY

C10_RejectedStep ==
  \A object_id \in ObjectIds :
    (CallPickUp(object_id) /\ Len(inventory) = INVENTORY_CAPACITY)
      => /\ inventory' = inventory
         /\ objects' = objects
         /\ messages' = LogAppended(messages, "You can't pick up the " \o
                                              objects[object_id + 1].name \o
                                              ". You're inventory is full!")

C10_Capacity == [](C10_WithinCapacity) /\ [][C10_RejectedStep]_vars

\* a pickup was attempted with 26 entries held: rejected, both potions are still on the map
C10_Witness ==
  /\ pc = "calls"
  /\ Len(inventory) = INVENTORY_CAPACITY
  /\ messages = <<"You can't pick up the Healing Potion. You're inventory is full!">>
  /\ \E i \in 1..Len(objects), j \in 1..Len(objects) :
       i # j /\ IsSome(objects[i].item) /\ IsSome(objects[j].item)

(* C11: in a tick the monsters are updated exactly when handle_input returned *)
(* TookTurn and the session is still running. The update visits the indices   *)
(* 0, 1, .. of the collection once each, in ascending order; the entity at    *)
(* the index takes one ai_take_turn when it is alive and has a brain at that   *)
(* moment and nothing happens otherwise; no entity but the one at the index    *)
(* and the player it may attack changes, and outside the update no step but    *)
(* the player's changes an entity or the log. An Exit outcome sets             *)
(* game_running to false and ends the loop with no monster updated.            *)
C11_LoopState ==
  /\ pc = "npc" => /\ player_action = "TookTurn"
                   /\ game_running
                   /\ npc_len = Len(objects)
                   /\ npc_id < npc_len
  /\ pc = "update" => npc_id = (IF player_action = "TookTurn" THEN Len(objects) ELSE 0)
  /\ pc = "done" => ~game_running /\ npc_id = 0

C11_Acts(o) == IsSome(o.brain) /\ o.alive

C11_TickStep ==
  /\ (pc = "event" /\ pc' # "panic") =>
       /\ (pc' = "npc") <=> (player_action' = "TookTurn" /\ game_running')
       /\ player_action' = "Exit" => (~game_running' /\ pc' = "done")
  /\ (pc = "npc" /\ pc' # "panic") =>
       /\ npc_id' = npc_id + 1
       /\ ~C11_Acts(objects[npc_id + 1]) => UNCHANGED <<objects, messages>>
       /\ C11_Acts(objects[npc_id + 1]) =>
            LET r == ai_take_turn(messages, fov, npc_id, map, objects)
            IN objects' = r.objects /\ messages' = r.messages
       /\ Len(objects') = Len(objects)
       /\ \A j \in 1..Len(objects) :
            (j # npc_id + 1 /\ j # PLAYER_IDX + 1) => objects'[j] = objects[j]
  /\ pc \in {"loop_top", "update", "done"} => UNCHANGED <<objects, messages>>

C11_NpcTurns == [](C11_LoopState) /\ [][C11_TickStep]_vars

\* every index was visited after a TookTurn, and the monster in reach has attacked
C11_Witness ==
  /\ pc = "update"
  /\ player_action = "TookTurn"
  /\ npc_id = Len(objects)
  /\ Len(objects) >= 3
  /\ \E k \in 1..Len(messages) : messages[k] = "Wizard_2 attacks Player Bob and deals 1 damage!"

(* C12: one turn of a monster, ai_take_turn(id). When the monster's tile is    *)
(* not in the oracle's visible set nothing changes. When it is: at a distance *)
(* >= 2.0 from the player the monster makes the step of move_towards, one     *)
(* tile along the rounded direction if that tile is passable and free of      *)
(* blockers and none otherwise, and the player and the log are untouched;     *)
(* nearer than 2.0 it attacks the player if the player is alive, staying in   *)
(* place, and does nothing if the player is dead. A turn in which the monster *)
(* has moved has logged nothing and left the player as it was, and no other   *)
(* entity changes in any case.                                                *)
C12_Step(id) ==
  LET npc == objects[id + 1]
      seen == TileIndex(npc.x, npc.y) \in fov
      far == (Player.x - npc.x) * (Player.x - npc.x) + (Player.y - npc.y) * (Player.y - npc.y) >= 4
      sx == StepToward(Player.x - npc.x, Player.y - npc.y)
      sy == StepToward(Player.y - npc.y, Player.x - npc.x)
      damage == PowerOf(npc) - DefenseOf(Player)
  IN /\ ~seen => UNCHANGED <<objects, messages>>
     /\ (seen /\ far) =>
          /\ messages' = messages
          /\ objects' = [objects EXCEPT ![id + 1] =
                           IF C3_Free(npc.x + sx, npc.y + sy)
                           THEN [npc EXCEPT !.x = npc.x + sx, !.y = npc.y + sy]
                           ELSE npc]
     /\ (seen /\ ~far /\ Player.alive) =>
          /\ objects'[id + 1] = npc
          /\ messages' # messages
          /\ IF damage > 0
             THEN /\ Hp(objects'[PLAYER_IDX + 1]) = Hp(Player) - Min(damage, Hp(Player))
                  /\ \E k \in 1..Len(messages') :
                       messages'[k] = npc.name \o " attacks " \o Player.name \o " and deals " \o
                                      ToString(damage) \o " damage!"
             ELSE /\ objects' = objects
                  /\ messages' = LogAppended(messages, npc.name \o " attacks " \o Player.name \o
                                                       ", but it has no effect!")
     /\ (seen /\ ~far /\ ~Player.alive) => UNCHANGED <<objects, messages>>
     /\ Pos(objects'[id + 1]) # Pos(npc) =>
          (messages' = messages /\ objects'[PLAYER_IDX + 1] = Player)
     /\ Len(objects') = Len(objects)
     /\ \A j \in 1..Len(objects) :
          (j # id + 1 /\ j # PLAYER_IDX + 1) => objects'[j] = objects[j]

C12_NpcTurn == [][\A id \in ObjectIds : CallAiTakeTurn(id) => C12_Step(id)]_vars

\* a monster in view, two tiles or more from the player, has stepped off the tile
\* it was placed on and toward the player; nothing was logged
C12_Witness ==
  /\ pc = "calls"
  /\ messages = <<>>
  /\ Player.alive /\ Hp(Player) = MaxHp(Player)
  /\ \E j \in 2..Len(objects) :
       /\ IsSome(objects[j].brain) /\ objects[j].alive
       /\ Pos(objects[j]) = <<2, 1>>
       /\ Pos(Player) = <<3, 2>>
       /\ TileIndex(1, 1) \in fov

(* C13: the explored flag of a tile never goes from true to false: in every   *)
(* step of the program, generation and ticks with or without a recompute, the *)
(* tiles explored before the step are explored after it.                      *)
C13_ExploredStays == [][map.explored \subseteq map'.explored]_vars

\* after a later recompute left only the player's tile in view, the tiles seen
\* before are still explored
C13_Witness ==
  /\ pc = "loop_top"
  /\ ticks >= 2
  /\ map.visible = {TileIndex(Player.x, Player.y)}
  /\ Cardinality(map.explored) > 1
  /\ map.visible \subseteq map.explored

(* C14, the parts common to the statement and its amendment: at the head of a *)
(* tick the recompute fires exactly when the player's position differs from    *)
(* the recorded one, and it fires in the first tick; the oracle's visible set  *)
(* changes only when it fires; the visible and explored flags change only in   *)
(* update_map at the end of a tick in which it fired.                          *)
C14_TriggerStep ==
  /\ (pc = "loop_top" /\ pc' = "event") =>
       /\ recompute_fov' <=> (Pos(Player) # previous_player_pos)
       /\ ticks = 0 => recompute_fov'
       /\ IF recompute_fov'
          THEN fov' \in compute_fov(Player.x, Player.y, TORCH_RADIUS)
          ELSE fov' = fov
  /\ (pc = "update" /\ ~recompute_fov) => map' = map
  /\ pc \in {"loop_top", "event", "npc", "done"} => map' = map

(* C14 as stated: the recorded position is the one the player has at the end  *)
(* of the tick, so that the trigger compares the current position with the    *)
(* position at the end of the previous tick.                                  *)
C14_RecordedAtEnd == pc = "update" => previous_player_pos = Pos(Player)

C14_AsStated == [](C14_RecordedAtEnd) /\ [][C14_TriggerStep]_vars

(* C14 amended: the position is recorded in a tick before the player's input  *)
(* is handled and is kept until the next tick records again, so that the       *)
(* recompute fires at the head of a tick exactly when the player moved during  *)
(* the previous tick (and in the first tick); the rest as stated.              *)
C14_RecordStep ==
  /\ pc = "event" => previous_player_pos' = Pos(Player)
  /\ pc \in {"loop_top", "npc", "update", "done"} => previous_player_pos' = previous_player_pos
  /\ pc \in {"loop_top", "npc", "update", "done"} => Pos(objects'[PLAYER_IDX + 1]) = Pos(Player)

C14_Recompute == [][C14_TriggerStep /\ C14_RecordStep]_vars

\* the recompute has fired at the head of the second tick: the player moved in the first
C14_Witness ==
  /\ pc = "event"
  /\ ticks = 1
  /\ recompute_fov
  /\ previous_player_pos # <<-1, -1>>
  /\ previous_player_pos # Pos(Player)

(* C15: at every point of the generation and after it, any two accepted rooms *)
(* are strictly apart on an axis (sharing not even a border coordinate, which *)
(* is what the inclusive test calls intersecting), and every accepted room    *)
(* has its corners inside the map.                                            *)
C15_RoomsApart ==
  /\ \A i \in 1..Len(rooms), j \in 1..Len(rooms) :
       i # j => \/ rooms[i].x2 < rooms[j].x1
                \/ rooms[j].x2 < rooms[i].x1
                \/ rooms[i].y2 < rooms[j].y1
                \/ rooms[j].y2 < rooms[i].y1
  /\ \A i \in 1..Len(rooms) :
       /\ 0 <= rooms[i].x1 /\ rooms[i].x1 < rooms[i].x2 /\ rooms[i].x2 <= MAP_WIDTH - 1
       /\ 0 <= rooms[i].y1 /\ rooms[i].y1 < rooms[i].y2 /\ rooms[i].y2 <= MAP_HEIGHT - 1

\* a finished level of four rooms: two side by side with their borders one apart, two
\* on the last row of the map; candidates touching or overlapping them were drawn too
C15_Witness ==
  /\ pc = "loop_top"
  /\ Len(rooms) = 4
  /\ \E i \in 1..Len(rooms), j \in 1..Len(rooms) :
       /\ rooms[j].x1 = rooms[i].x2 + 1
       /\ rooms[j].y1 = rooms[i].y1
       /\ rooms[i].y2 = MAP_HEIGHT - 1

(* C16: once the level is generated, the center of every accepted room after  *)
(* the first and the center of the room accepted just before it are joined by  *)
(* passable tiles lying on one horizontal and one vertical straight segment   *)
(* (the horizontal one on the row of either center, the vertical one on the   *)
(* column of the other), and the center of every accepted room is reachable   *)
(* from the center of the first room, where the player is placed, by steps to *)
(* one of the 4 neighbours over passable tiles.                               *)
C16_HSegment(xa, xb, y) == {TileIndex(x, y) : x \in Min(xa, xb)..Max(xa, xb)}
C16_VSegment(ya, yb, x) == {TileIndex(x, y) : y \in Min(ya, yb)..Max(ya, yb)}

C16_Neighbours(idx) ==
  {n \in {idx - MAP_WIDTH, idx + MAP_WIDTH} : InMap(n)} \cup
  {n \in {idx - 1, idx + 1} : InMap(n) /\ n \div MAP_WIDTH = idx \div MAP_WIDTH}

RECURSIVE C16_Flood(_, _, _)
C16_Flood(seen, frontier, floor) ==
  IF frontier = {} THEN seen
  ELSE LET next == ((UNION {C16_Neighbours(f) : f \in frontier}) \cap floor) \ seen
       IN C16_Flood(seen \cup next, next, floor)

C16_Reachable(from) ==
  IF from \in map.passable THEN C16_Flood({from}, {from}, map.passable) ELSE {}

C16_Connected ==
  (pc # "make_map" /\ rooms # <<>>) =>
    /\ \A k \in 2..Len(rooms) :
         LET prev == center(rooms[k - 1])
             new == center(rooms[k])
         IN \/ (C16_HSegment(prev[1], new[1], prev[2]) \cup C16_VSegment(prev[2], new[2], new[1]))
                  \subseteq map.passable
            \/ (C16_VSegment(prev[2], new[2], prev[1]) \cup C16_HSegment(prev[1], new[1], new[2]))
                  \subseteq map.passable
    /\ Pos(Player) = center(rooms[1])
    /\ \A k \in 1..Len(rooms) :
         TileIndex(center(rooms[k])[1], center(rooms[k])[2]) \in
           C16_Reachable(TileIndex(Player.x, Player.y))

\* a finished level of three rooms in which a room and the one before it have their
\* centers on different rows and different columns, joined around a corner outside
\* every room
C16_Witness ==
  /\ pc = "loop_top"
  /\ Len(rooms) = 3
  /\ \E k \in 2..Len(rooms) :
       LET prev == center(rooms[k - 1])
           new == center(rooms[k])
       IN /\ prev[1] # new[1]
          /\ prev[2] # new[2]
          /\ TileIndex(new[1], prev[2]) \in map.passable
          /\ \A j \in 1..Len(rooms) :
               ~(rooms[j].x1 < new[1] /\ new[1] < rooms[j].x2 /\
                 rooms[j].y1 < prev[2] /\ prev[2] < rooms[j].y2)


(* C17: the level make_map builds is a function of the seed: two runs with the same *)
(* seed build the same map, rooms and objects, and a run without --seed is a run    *)
(* with the default seed 69. Stated on a run: when make_map has returned, the level *)
(* is the one the seed of the run gives, the seed being the one supplied or, with   *)
(* none supplied, DEFAULT_SEED.                                                     *)
C17_SeedOfRun ==
  IF Unwrap(thread_ctx).custom_seed THEN Unwrap(thread_ctx).rand_seed ELSE DEFAULT_SEED

C17_LevelOfSeed(seed) == make_map(StdRng_from_seed(seed), <<PlayerNew>>)

C17_SameLevel(level) ==
  /\ map = level.map
  /\ rooms = level.rooms
  /\ objects = level.objects

C17_AsStated ==
  (pc = "loop_top" /\ IsSome(thread_ctx)) => C17_SameLevel(C17_LevelOfSeed(C17_SeedOfRun))

\* the part of C17 that holds: a run with a supplied seed builds the level of that seed
C17_SuppliedSeed ==
  (pc = "loop_top" /\ IsSome(thread_ctx) /\ Unwrap(thread_ctx).custom_seed)
    => C17_SameLevel(C17_LevelOfSeed(Unwrap(thread_ctx).rand_seed))

\* a run without --seed whose level is not the level of seed 69
C17_Witness ==
  /\ pc = "loop_top"
  /\ IsSome(thread_ctx)
  /\ ~Unwrap(thread_ctx).custom_seed
  /\ Len(rooms) >= 2
  /\ ~C17_SameLevel(C17_LevelOfSeed(DEFAULT_SEED))


(* C18: the message log is append-only: a step leaves every entry of the log where *)
(* it was and can only add entries after them; no entry is removed or moved.      *)
C18_AsStated ==
  [][/\ Len(messages') >= Len(messages)
     /\ SubSeq(messages', 1, Len(messages)) = messages]_vars

\* what message() keeps: the log never holds more than MSG_HEIGHT entries, and a step
\* keeps the entries it does not push out at the head, in their order
C18_Kept(dropped) ==
  /\ dropped <= Len(messages)
  /\ Len(messages') >= Len(messages) - dropped
  /\ SubSeq(messages', 1, Len(messages) - dropped)
       = SubSeq(messages, dropped + 1, Len(messages))

C18_Window ==
  /\ [](Len(messages) <= MSG_HEIGHT)
  /\ [][\E dropped \in 0..MSG_HEIGHT :
          /\ C18_Kept(dropped)
          /\ dropped > 0 => Len(messages') = MSG_HEIGHT]_vars

\* seven hits of the wizard on the player, six of them in the log
C18_Witness ==
  /\ pc = "calls"
  /\ calls > MSG_HEIGHT
  /\ Len(messages) = MSG_HEIGHT
  /\ \A k \in 1..MSG_HEIGHT : messages[k] = "Wizard_2 attacks Player Bob and deals 1 damage!"
  /\ Unwrap(objects[PLAYER_IDX + 1].char_attributes).hp = 30 - (MSG_HEIGHT + 1)


(* C19: mut_two is never called with equal indices. At the event match, whatever  *)
(* direction key comes, the entity the player's step collides with is not the     *)
(* player; in the loop over the monsters, an entity whose turn it is (it has a    *)
(* brain and is alive) is not the player, so the attack of ai_take_turn pairs two *)
(* different indices; and the loop never stops on a failed assertion.             *)
C19_PlayerSite(key) ==
  LET mv == attempt_move(PLAYER_IDX, Step(key)[1], Step(key)[2], map, objects)
      ci == mv.coll_info
  IN (/\ ~MovePanics(PLAYER_IDX, Step(key)[1], Step(key)[2], objects)
      /\ ci.obj_collision
      /\ IsSome(ci.collision_id))
       => ~mut_two_panics(PLAYER_IDX, Unwrap(ci.collision_id))

C19_NpcSite ==
  (/\ npc_id < Len(objects)
   /\ IsSome(objects[npc_id + 1].brain)
   /\ objects[npc_id + 1].alive)
    => /\ ~mut_two_panics(npc_id, PLAYER_IDX)
       /\ ~ai_take_turn(messages, fov, npc_id, map, objects).panic

C19_DistinctIndices ==
  /\ pc # "panic"
  /\ (pc = "event" /\ objects[PLAYER_IDX + 1].alive)
       => \A key \in {"Up", "Down", "Left", "Right"} : C19_PlayerSite(key)
  /\ pc = "npc" => C19_NpcSite

\* the player has attacked the witch next to it in this tick and it is the witch's
\* turn: it is in view, next to the living player, and mut_two(1, PLAYER_IDX) is next
C19_Witness ==
  /\ pc = "npc"
  /\ npc_id = 1
  /\ IsSome(objects[2].brain)
  /\ objects[2].alive
  /\ is_in_fov(fov, objects[2].x, objects[2].y)
  /\ ~DistanceAtLeast2(objects[2], objects[PLAYER_IDX + 1])
  /\ objects[PLAYER_IDX + 1].alive
  /\ Len(messages) > 0
  /\ messages[Len(messages)] = "Player Bob attacks Witch_2 and deals 3 damage!"


(* C20: a successful pickup (key g, player alive, an entity with an item on the  *)
(* player's tile, fewer than 26 entries in the inventory) takes the first such   *)
(* entity in the order of the collection: the collection loses exactly that      *)
(* entry, its former last entry takes the freed index and every other index      *)
(* keeps its entity; the entity becomes the last entry of the inventory, whose   *)
(* other entries stay; collection and inventory together hold as many as before. *)
C20_OnPlayersTile ==
  {i \in 1..Len(objects) : IsSome(objects[i].item) /\ Pos(objects[i]) = Pos(objects[PLAYER_IDX + 1])}

C20_Picked(i) ==
  /\ i \in C20_OnPlayersTile
  /\ \A j \in C20_OnPlayersTile : i <= j
  /\ Len(objects') = Len(objects) - 1
  /\ \A j \in 1..Len(objects') :
       objects'[j] = IF j = i THEN objects[Len(objects)] ELSE objects[j]
  /\ Len(inventory') = Len(inventory) + 1
  /\ inventory'[Len(inventory')] = objects[i]
  /\ \A j \in 1..Len(inventory) : inventory'[j] = inventory[j]
  /\ Len(objects') + Len(inventory') = Len(objects) + Len(inventory)

C20_PickupStep ==
  (/\ CallHandleInput("g")
   /\ objects[PLAYER_IDX + 1].alive
   /\ C20_OnPlayersTile # {}
   /\ Len(inventory) < INVENTORY_CAPACITY)
    => \E i \in 1..Len(objects) : C20_Picked(i)

C20_Pickup == [][C20_PickupStep]_vars

\* two potions lay on the player's tile, before the witch of the second room: the
\* first was picked, the witch now has its index, the second potion still lies there
C20_Witness ==
  /\ pc = "calls"
  /\ keypress = "g"
  /\ Len(objects) = 3
  /\ Pos(objects[PLAYER_IDX + 1]) = <<2, 1>>
  /\ objects[2].name = "Witch_4"
  /\ IsSome(objects[3].item) /\ Pos(objects[3]) = <<2, 1>>
  /\ Len(inventory) = 3
  /\ Pos(inventory[3]) = <<2, 1>>
  /\ Len(messages) > 0
  /\ messages[Len(messages)] = "You picked up a Healing Potion!"


(* C21: a step that takes an entity out of the collection is the pickup of the  *)
(* event match: its outcome is DidntTakeTurn and the loop over the monsters is  *)
(* not entered in that tick. While that loop runs the collection keeps its      *)
(* length, the range 0..len taken at its start is the range of the collection,  *)
(* the index in use lies inside it, and no step ends on an index out of range.  *)
C21_RemovalStep ==
  Len(objects') < Len(objects)
    => /\ pc = "event"
       /\ keypress' = "g"
       /\ player_action' = "DidntTakeTurn"
       /\ pc' \in {"update", "done"}
       /\ Len(inventory') = Len(inventory) + 1

C21_LoopStep == pc = "npc" => Len(objects') = Len(objects)

C21_IndexInRange ==
  /\ pc # "panic"
  /\ pc = "npc" => (npc_len = Len(objects) /\ npc_id < Len(objects))

C21_NoStaleIndex == [](C21_IndexInRange) /\ [][C21_RemovalStep /\ C21_LoopStep]_vars

\* the tick of a pickup after its event match: one potion taken, a monster with a
\* brain still in the collection, the update of the map next
C21_Witness ==
  /\ pc = "update"
  /\ keypress = "g"
  /\ player_action = "DidntTakeTurn"
  /\ Len(inventory) = 1
  /\ \E i \in 1..Len(objects) : IsSome(objects[i].brain) /\ objects[i].alive
  /\ Len(messages) > 0
  /\ messages[Len(messages)] = "You picked up a Healing Potion!"


(* C22: carving an accepted room turns into floor the cells strictly inside its  *)
(* border and no other cell (the tunnel to the previous room aside). As stated,  *)
(* make_map can moreover accept two rooms whose carved interiors are separated   *)
(* by a single wall tile. It cannot: between the interiors of two accepted rooms *)
(* that face each other in a row or a column there are at least two tiles, and   *)
(* two it can be.                                                                *)
C22_Cells(r) == ((r.x1 + 1)..(r.x2 - 1)) \X ((r.y1 + 1)..(r.y2 - 1))

C22_Interior(r) == {TileIndex(c[1], c[2]) : c \in C22_Cells(r)}

\* the tiles between a cell of a and a cell of b in the same row or column
C22_Between(p, q) ==
  IF p[2] = q[2] THEN Max(p[1], q[1]) - Min(p[1], q[1]) - 1
  ELSE Max(p[2], q[2]) - Min(p[2], q[2]) - 1

C22_Facing(a, b) ==
  {pq \in C22_Cells(a) \X C22_Cells(b) : pq[1][1] = pq[2][1] \/ pq[1][2] = pq[2][2]}

C22_SingleWall(a, b) == \E pq \in C22_Facing(a, b) : C22_Between(pq[1], pq[2]) = 1

C22_CarveStep ==
  Len(rooms') = Len(rooms) + 1
    => LET room == rooms'[Len(rooms')]
           new == center(room)
           prev == center(rooms[Len(rooms)])
           tunnels == C16_HSegment(prev[1], new[1], prev[2]) \cup C16_HSegment(prev[1], new[1], new[2])
                        \cup C16_VSegment(prev[2], new[2], prev[1]) \cup C16_VSegment(prev[2], new[2], new[1])
       IN /\ C22_Interior(room) \subseteq map'.passable
          /\ rooms = <<>> => map'.passable = C22_Interior(room)
          /\ rooms # <<>> => map'.passable \subseteq (map.passable \cup C22_Interior(room) \cup tunnels)

\* the rooms make_map can draw in the corner of the map, at every origin up to two
\* columns and rows past the smallest room
C22_Candidates ==
  {RectNew(x, y, w, h) : x \in 0..(ROOM_MIN_SIZE + 2), y \in 0..(ROOM_MIN_SIZE + 2),
                         w \in GenSizeDraws, h \in GenSizeDraws}

C22_AsStated ==
  /\ [][C22_CarveStep]_vars
  /\ \E a \in C22_Candidates, b \in C22_Candidates :
       ~intersects_with(b, a) /\ C22_SingleWall(a, b)

C22_TwoWallsApart ==
  \A i \in 1..Len(rooms), j \in 1..Len(rooms) :
    i < j => \A pq \in C22_Facing(rooms[i], rooms[j]) : C22_Between(pq[1], pq[2]) >= 2

C22_Carving == [](C22_TwoWallsApart) /\ [][C22_CarveStep]_vars

\* two rooms side by side with exactly two wall tiles between their interiors
C22_Witness ==
  /\ Len(rooms) >= 2
  /\ rooms[2].x1 = rooms[1].x2 + 1
  /\ rooms[2].y1 = rooms[1].y1
  /\ C22_Interior(rooms[1]) \cup C22_Interior(rooms[2]) \subseteq map.passable
  /\ \E pq \in C22_Facing(rooms[1], rooms[2]) :
       /\ C22_Between(pq[1], pq[2]) = 2
       /\ TileIndex(rooms[1].x2, pq[1][2]) \notin map.passable
       /\ TileIndex(rooms[2].x1, pq[1][2]) \notin map.passable


(* C23: the entity at index 0 of the collection is always the player: it is the *)
(* entity main built first, it has neither a brain nor an item, and a step that *)
(* takes an entity out of the collection leaves index 0 as it was.              *)
C23_PlayerAtIndex0 ==
  /\ Len(objects) >= 1
  /\ objects[PLAYER_IDX + 1].name = PlayerNew.name
  /\ objects[PLAYER_IDX + 1].brain = None
  /\ objects[PLAYER_IDX + 1].item = None

C23_RemovalStep ==
  Len(objects') < Len(objects) => objects'[PLAYER_IDX + 1] = objects[PLAYER_IDX + 1]

C23_PlayerIdx == [](C23_PlayerAtIndex0) /\ [][C23_RemovalStep]_vars

\* the potion at index 1 was picked up and the witch of the second room, the former
\* last entity, has taken index 1; the player is still at index 0
C23_Witness ==
  /\ pc = "update"
  /\ Len(inventory) = 1
  /\ Len(objects) = 2
  /\ objects[PLAYER_IDX + 1].name = "Player Bob"
  /\ Pos(objects[PLAYER_IDX + 1]) = Pos(inventory[1])
  /\ objects[2].name = "Witch_3"


(* C24: every entity that blocks its tile is alive. So when a step of the player *)
(* is stopped by an entity, whatever direction key comes, the entity is alive    *)
(* and the player attacks it: the message about a corpse is never logged.        *)
C24_BlockingIsAlive == \A i \in 1..Len(objects) : objects[i].blocks => objects[i].alive

C24_PlayerSite(key) ==
  LET ci == attempt_move(PLAYER_IDX, Step(key)[1], Step(key)[2], map, objects).coll_info
      r == player_move_or_attack(messages, Step(key)[1], Step(key)[2], map, objects)
  IN (ci.obj_collision /\ IsSome(ci.collision_id))
       => /\ objects[Unwrap(ci.collision_id) + 1].alive
          /\ r.messages = attack(objects[PLAYER_IDX + 1], objects[Unwrap(ci.collision_id) + 1],
                                  messages).messages

C24_NoCorpseBranch ==
  /\ C24_BlockingIsAlive
  /\ (pc = "event" /\ objects[PLAYER_IDX + 1].alive)
       => \A key \in {"Up", "Down", "Left", "Right"} : C24_PlayerSite(key)

\* the player has killed the lizard next to it and has walked onto its tile
C24_Witness ==
  /\ pc = "update"
  /\ objects[PLAYER_IDX + 1].alive
  /\ \E i \in 2..Len(objects) :
       /\ objects[i].name = "Lizard_2 [corpse]"
       /\ ~objects[i].alive
       /\ ~objects[i].blocks
       /\ Pos(objects[i]) = Pos(objects[PLAYER_IDX + 1])


(* C25: the outermost rows and columns of the map are wall. Every entity stands *)
(* on a floor tile, hence strictly inside the grid, and the tile a step of the  *)
(* player (any direction key) or of a monster towards the player asks about has *)
(* its column in 0..MAP_WIDTH-1 and its row in 0..MAP_HEIGHT-1: the index       *)
(* y * MAP_WIDTH + x is in range and is the index of that tile.                 *)
C25_Border ==
  {TileIndex(x, y) : x \in 0..(MAP_WIDTH - 1), y \in {0, MAP_HEIGHT - 1}}
    \cup {TileIndex(x, y) : x \in {0, MAP_WIDTH - 1}, y \in 0..(MAP_HEIGHT - 1)}

C25_InGrid(x, y) == x \in 0..(MAP_WIDTH - 1) /\ y \in 0..(MAP_HEIGHT - 1)

C25_Inside(o) ==
  /\ o.x \in 1..(MAP_WIDTH - 2)
  /\ o.y \in 1..(MAP_HEIGHT - 2)
  /\ TileIndex(o.x, o.y) \in map.passable

C25_MonsterQuery(id) ==
  LET npc == objects[id + 1]
      player == objects[PLAYER_IDX + 1]
      dx == StepToward(player.x - npc.x, player.y - npc.y)
      dy == StepToward(player.y - npc.y, player.x - npc.x)
  IN /\ C25_InGrid(npc.x + dx, npc.y + dy)
     /\ ~MoveTowardsPanics(id, Pos(player), objects)

C25_InsideTheMap ==
  /\ C25_Border \cap map.passable = {}
  /\ \A i \in 1..Len(objects) : C25_Inside(objects[i])
  /\ \A key \in {"Up", "Down", "Left", "Right"} :
       /\ C25_InGrid(objects[PLAYER_IDX + 1].x + Step(key)[1], objects[PLAYER_IDX + 1].y + Step(key)[2])
       /\ ~MovePanics(PLAYER_IDX, Step(key)[1], Step(key)[2], objects)
  /\ \A id \in ObjectIds : IsSome(objects[id + 1].brain) => C25_MonsterQuery(id)

\* the player, seeded in the room of the far corner, has walked to its last floor
\* column, next to the last column of the map; a tunnel crosses the map to the room
\* of the near corner
C25_Witness ==
  /\ pc = "calls"
  /\ calls >= 2
  /\ Len(rooms) = 2
  /\ rooms[2].x1 = 0 /\ rooms[2].y1 = 0
  /\ objects[PLAYER_IDX + 1].x = MAP_WIDTH - 2
  /\ TileIndex(MAP_WIDTH - 2, objects[PLAYER_IDX + 1].y) \in map.passable
  /\ TileIndex(MAP_WIDTH - 1, objects[PLAYER_IDX + 1].y) \notin map.passable
  /\ TileIndex(1, 1) \in map.passable


(* C26: once the tick in which the player died is over (the player is dead and   *)
(* the loop over the monsters is not running), no step changes the entities or   *)
(* the inventory and no step enters the loop over the monsters; the event match  *)
(* resolves to DidntTakeTurn for every key but Escape, which resolves to Exit,   *)
(* and the session ends only by Exit or by the window being closed.              *)
C26_Frozen ==
  (~objects[PLAYER_IDX + 1].alive /\ pc # "npc")
    => /\ objects' = objects
       /\ inventory' = inventory
       /\ pc' # "npc"
       /\ pc = "event" =>
            /\ player_action' = IF keypress' = "Escape" THEN "Exit" ELSE "DidntTakeTurn"
            /\ pc' \in {"update", "done"}
            /\ keypress' = "Escape" => pc' = "done"
       /\ game_running' # game_running => pc' = "done"

C26_FrozenAfterDeath == [][C26_Frozen]_vars

\* the player died standing on the potion; a tick later the key g has been handled:
\* the potion still lies there and the update of the map is next
C26_Witness ==
  /\ pc = "update"
  /\ ticks >= 1
  /\ ~objects[PLAYER_IDX + 1].alive
  /\ Unwrap(objects[PLAYER_IDX + 1].char_attributes).hp = 0
  /\ keypress = "g"
  /\ player_action = "DidntTakeTurn"
  /\ inventory = <<>>
  /\ \E i \in 2..Len(objects) :
       IsSome(objects[i].item) /\ Pos(objects[i]) = Pos(objects[PLAYER_IDX + 1])
  /\ messages[Len(messages)] = "Player Bob died!"


(* C27: an iteration of the loop that receives a mouse event only, or no event, *)
(* resolves no action of the player: handle_input returns DidntTakeTurn and     *)
(* leaves the entities and the inventory as they are, so that a key press is    *)
(* resolved in the one iteration that received it.                              *)
C27_Resolves(ev) == handle_input(EventKey(ev, keypress), inventory, messages, map, objects)

C27_NoAction(ev) ==
  /\ C27_Resolves(ev).action = "DidntTakeTurn"
  /\ C27_Resolves(ev).objects = objects
  /\ C27_Resolves(ev).inventory = inventory

C27_AsStated == pc = "event" => (C27_NoAction("Mouse") /\ C27_NoAction("None"))

\* the part of C27 that holds: an iteration without an event resolves no action
C27_NoEvent == pc = "event" => C27_NoAction("None")

\* the second tick at its event match, the key Right of the first tick still in
\* keypress: a mouse event now moves the player a second time
C27_Witness ==
  /\ pc = "event"
  /\ ticks = 1
  /\ keypress = "Right"
  /\ previous_player_pos # Pos(objects[PLAYER_IDX + 1])
  /\ C27_Resolves("Mouse").action = "TookTurn"
  /\ Pos(C27_Resolves("Mouse").objects[PLAYER_IDX + 1]) # Pos(objects[PLAYER_IDX + 1])

====
